---- MODULE Spec2Model ----
(***************************************************************************)
(* Signal detection and aggregation engine of the screener:                *)
(* SignalGenerator.analyze_symbol (analysis/signals.py) and the detectors  *)
(* it calls (analysis/smart_money.py, analysis/patterns.py,                *)
(* analysis/technical.py).                                                 *)
(*                                                                         *)
(* Prices and volumes are integers (one unit = 0.1 of the quote currency), *)
(* every ratio test of the code (x / y < t) is evaluated exactly by        *)
(* cross-multiplication.  NaN is the explicit value NaN: every comparison  *)
(* with it is false, as in the code's float comparisons.  A Python dict is *)
(* a record, a missing key is a missing field; a Python list a sequence.   *)
(* Wall-clock fields (timestamp) and the symbol string are not modelled.   *)
(***************************************************************************)
EXTENDS Integers, Sequences, FiniteSets, TLC

VARIABLES
    df,                \* the caller's DataFrame: [isNone, rows, columns, ind]
    levels,            \* levels dict: [support, resistance]
    enabled_signals,   \* [isNone, list]: the enabled_signals argument
    cap,               \* config.settings.MAX_SIGNALS_PER_COIN
    show_confluence,   \* config.settings.SHOW_CONFLUENCE
    fault,             \* the category whose detector raises, or "none"
    pc,                \* position inside analyze_symbol, or the detector called
    enabled,           \* the local enabled_signals list after defaulting
    all_signals,       \* the local list all_signals
    raised,            \* the category at which the except clause was entered
    result,            \* the returned list
    feeds,             \* MTFAnalyzer: what each timeframe's get_ohlcv gives
    results,           \* MTFAnalyzer.analyze_symbol: the local dict results
    runs,              \* the earlier calls of analyze_symbol on this generator
    scan,              \* BotHandlers: active_scans and one _perform_scan task
    limiter            \* RateLimiter: the histories of one key and its callers

vars == <<df, levels, enabled_signals, cap, show_confluence, fault,
          pc, enabled, all_signals, raised, result, feeds, results, runs,
          scan, limiter>>

-----------------------------------------------------------------------------
(* Bounds of the instances *)

MaxLen == 100          \* longest candle series
MaxLevels == 4         \* longest support / resistance list
NumCallers == 3     \* concurrent calls of RateLimiter.acquire
LastCall == 1       \* the latest tick at which acquire is called
Second == 2         \* ticks of the clock per second

-----------------------------------------------------------------------------
(* Generic helpers: Python list and float idioms *)

NaN == 999999

Min(a, b) == IF a < b THEN a ELSE b
Max(a, b) == IF a > b THEN a ELSE b
Abs(a) == IF a < 0 THEN -a ELSE a

\* float comparisons: false as soon as one side is NaN
Gt(a, b) == a # NaN /\ b # NaN /\ a > b
Lt(a, b) == a # NaN /\ b # NaN /\ a < b

\* s[:k] for k >= 0, and s[-k:]
Head_(s, k) == SubSeq(s, 1, Min(k, Len(s)))
Tail_(s, k) == SubSeq(s, Len(s) - Min(k, Len(s)) + 1, Len(s))

\* a slice that keeps one element too many (off by one in the bound)
PySliceToInclusive(s, k) == Head_(s, k + 1)

\* s[:k] with Python's meaning of a negative k
PySliceTo(s, k) == IF k >= 0 THEN Head_(s, k) ELSE Head_(s, Max(Len(s) + k, 0))

InList(x, s) == \E i \in 1..Len(s) : s[i] = x

\* The folds below split their range in halves, which keeps the evaluation
\* depth logarithmic in the length of the series.
Mid(lo, hi) == (lo + hi) \div 2

RECURSIVE SelectIdx(_, _, _)
\* the increasing sequence of the indices i in lo..hi with P[i]
SelectIdx(P, lo, hi) ==
    IF lo > hi THEN <<>>
    ELSE IF lo = hi THEN (IF P[lo] THEN <<lo>> ELSE <<>>)
    ELSE SelectIdx(P, lo, Mid(lo, hi)) \o SelectIdx(P, Mid(lo, hi) + 1, hi)

RECURSIVE Flatten(_, _, _)
\* ss[lo] \o ss[lo + 1] \o ... \o ss[hi], each ss[p] a list
Flatten(ss, lo, hi) ==
    IF lo > hi THEN <<>>
    ELSE IF lo = hi THEN ss[lo]
    ELSE Flatten(ss, lo, Mid(lo, hi)) \o Flatten(ss, Mid(lo, hi) + 1, hi)

\* the values of f at the positions idx
ValuesAt(f, idx) == [k \in 1..Len(idx) |-> f[idx[k]]]

\* [x for x, k in zip(s, keep) if k]
Kept(s, keep) == ValuesAt(s, SelectIdx(keep, 1, Len(keep)))

RECURSIVE SumOf(_, _, _)
SumOf(f, lo, hi) ==
    IF lo > hi THEN 0
    ELSE IF lo = hi THEN f[lo]
    ELSE SumOf(f, lo, Mid(lo, hi)) + SumOf(f, Mid(lo, hi) + 1, hi)

RECURSIVE MaxOf(_, _, _)
MaxOf(f, lo, hi) ==
    IF lo = hi THEN f[lo]
    ELSE Max(MaxOf(f, lo, Mid(lo, hi)), MaxOf(f, Mid(lo, hi) + 1, hi))

RECURSIVE MinOf(_, _, _)
MinOf(f, lo, hi) ==
    IF lo = hi THEN f[lo]
    ELSE Min(MinOf(f, lo, Mid(lo, hi)), MinOf(f, Mid(lo, hi) + 1, hi))

Col(rows, name) == [i \in 1..Len(rows) |-> rows[i][name]]

\* f[i] == f.rolling(window = 2 * half + 1, center = True).max()[i] (or .min()):
\* the rolling value is NaN, and the comparison false, where the window does
\* not fit into the series; elsewhere f[i] equals the extremum of its window
\* exactly when no value of the window lies beyond it
IsRollingMax(f, n, half, i) ==
    /\ i - half >= 1
    /\ i + half <= n
    /\ \A k \in (i - half)..(i + half) : f[k] <= f[i]
IsRollingMin(f, n, half, i) ==
    /\ i - half >= 1
    /\ i + half <= n
    /\ \A k \in (i - half)..(i + half) : f[k] >= f[i]

\* the positions, in time order, of the rows of
\* df[df[col] == df[col].rolling(2 * half + 1, center=True).max()] (or .min())
ExtremaIdx(f, half, kind) ==
    LET n == Len(f)
    IN  SelectIdx([i \in 1..n |-> IF kind = "max" THEN IsRollingMax(f, n, half, i)
                                   ELSE IsRollingMin(f, n, half, i)], 1, n)

-----------------------------------------------------------------------------
(* The candle series the instances are drawn from.                         *)
(* A series of n candles is addressed from its end: j = 0 is the current   *)
(* candle.  The last two candles come from Tails, the older ones repeat a  *)
(* 12-candle swing that drifts by 15 units per swing.                      *)

Candle(o, h, l, c, v, r, m) ==
    [open |-> o, high |-> h, low |-> l, close |-> c, volume |-> v,
     rsi |-> r, macd |-> m]

SwingLow  == <<-22, -20, -18, -16, -2, 0, 4, 0, -4, -8, -10, -12>>
SwingHigh == <<-16, -14, -12, 10, 6, 10, 16, 10, 4, 0, -4, -6>>

Shapes == {"flat", "bull", "bear"}

Back(shape, j, warm) ==
    LET q == j \div 12
        t == 12 - (j % 12)            \* 1..12, forward in time
        lo == SwingLow[t]
        hi == SwingHigh[t]
        up == t <= 7
        r == IF warm THEN NaN ELSE 40 + (j % 30)
    IN  CASE shape = "flat" -> Candle(1000, 1000, 1000, 1000, 100,
                                      IF warm THEN NaN ELSE 50, 0)
          [] shape = "bull" ->
                LET b == 1000 - 15 * q
                IN  Candle(b + (IF up THEN lo + 1 ELSE hi - 1), b + hi, b + lo,
                           b + (IF up THEN hi - 1 ELSE lo + 1), 100, r, j - 20)
          [] shape = "bear" ->
                LET b == 1000 + 15 * q
                IN  Candle(b - (IF up THEN lo + 1 ELSE hi - 1), b - lo, b - hi,
                           b - (IF up THEN hi - 1 ELSE lo + 1), 100,
                           IF warm THEN NaN ELSE 100 - r, 20 - j)

Tails ==
    [quiet     |-> <<Candle(1000, 1001, 999, 1000, 100, 50, 0),
                     Candle(1000, 1001, 999, 1000, 100, 50, 0)>>,
     breakup   |-> <<Candle(1001, 1005, 1000, 1004, 100, 55, 1),
                     Candle(1004, 1014, 1003, 1013, 400, 65, 3)>>,
     breakdown |-> <<Candle(999, 1000, 995, 996, 100, 45, -1),
                     Candle(996, 997, 986, 987, 120, 35, -3)>>,
     fakeup    |-> <<Candle(1003, 1016, 1002, 1012, 100, 60, 2),
                     Candle(1013, 1014, 1001, 1002, 100, 48, 1)>>,
     fakedown  |-> <<Candle(997, 998, 984, 988, 100, 40, -2),
                     Candle(987, 999, 986, 998, 100, 52, -1)>>,
     hammer    |-> <<Candle(1000, 1001, 999, 1000, 100, 50, 0),
                     Candle(1000, 1003, 990, 1003, 250, 50, 0)>>,
     scenario  |-> <<Candle(1075, 1082, 1074, 1080, 100, 70, 5),
                     Candle(1080, 1112, 1079, 1110, 220, 80, 8)>>]

TailNames == DOMAIN Tails

\* more endings, used where a detector is called on its own: a gap of
\* 3.5 percent above a high of 1000, two candles without any movement, and
\* two long-tailed candles that engulf a small bearish one (the second also
\* closes at its high)
DetectorTails ==
    [gap   |-> <<Candle(1000, 1040, 1000, 1036, 100, 60, 2),
                 Candle(1036, 1040, 1035, 1038, 100, 65, 3)>>,
     still |-> <<Candle(1000, 1000, 1000, 1000, 100, 50, 0),
                 Candle(1000, 1000, 1000, 1000, 100, 50, 0)>>,
     engulf |-> <<Candle(1002, 1003, 1000, 1001, 100, 50, 0),
                  Candle(1000, 1005, 960, 1003, 100, 50, 0)>>,
     pinbar |-> <<Candle(1002, 1003, 1000, 1001, 100, 50, 0),
                  Candle(1000, 1003, 960, 1003, 100, 50, 0)>>]

TailOf(tail) == IF tail \in TailNames THEN Tails[tail] ELSE DetectorTails[tail]

\* the rsi column is NaN during its warm-up (the first 14 rows)
Series(shape, tail, n) ==
    [i \in 1..n |->
        LET j == n - i
        IN  IF j <= 1 /\ n >= 2 THEN TailOf(tail)[2 - j]
            ELSE Back(shape, j, i <= 14)]

BaseColumns == {"open", "high", "low", "close", "volume"}
IndicatorColumns == {"sma_20", "sma_50", "ema_9", "ema_21", "rsi", "macd",
                     "macd_signal", "volume_ratio", "atr"}

\* last-row values of the indicator columns the annotations read
Indicators(shape) ==
    CASE shape = "bull" ->
            [columns |-> IndicatorColumns, sma_20 |-> 990, sma_50 |-> 970,
             ema_9 |-> 995, ema_21 |-> 985, macd_signal |-> -1,
             volume_ratio |-> 150, atr |-> 12, atr_mean |-> 10]
      [] shape = "bear" ->
            [columns |-> IndicatorColumns, sma_20 |-> 1010, sma_50 |-> NaN,
             ema_9 |-> 1005, ema_21 |-> 1015, macd_signal |-> 1,
             volume_ratio |-> 80, atr |-> 9, atr_mean |-> 10]
      [] shape = "flat" ->
            [columns |-> {}, sma_20 |-> NaN, sma_50 |-> NaN,
             ema_9 |-> NaN, ema_21 |-> NaN, macd_signal |-> NaN,
             volume_ratio |-> NaN, atr |-> NaN, atr_mean |-> NaN]

Frame(shape, tail, n) ==
    [isNone |-> FALSE, rows |-> Series(shape, tail, n),
     columns |-> BaseColumns \cup Indicators(shape).columns,
     ind |-> Indicators(shape)]

NoFrame == [isNone |-> TRUE, rows |-> <<>>, columns |-> {}, ind |-> Indicators("flat")]

SupportPool    == <<990, 995, 998, 1001, 1004, 985, 980>>
ResistancePool == <<1010, 1008, 1006, 1003, 999, 1015, 1020>>

LevelSets ==
    {[support |-> Head_(SupportPool, k), resistance |-> Head_(ResistancePool, k)] :
        k \in 0..MaxLevels}
    \cup {[support |-> <<1000>>, resistance |-> <<1100>>]}

-----------------------------------------------------------------------------
(* SignalGenerator: signal records and the level based checks *)

\* round(a / b, 0) of Python: round half to even, a >= 0, b > 0
RoundHalfEven(a, b) ==
    LET q == a \div b
        r == a % b
    IN  IF 2 * r < b THEN q
        ELSE IF 2 * r > b THEN q + 1
        ELSE IF q % 2 = 0 THEN q ELSE q + 1

_create_signal(signal_type, direction, price, details, priority) ==
    [type |-> signal_type, direction |-> direction, price |-> price,
     details |-> details, priority |-> priority]

CurrentPrice(rows) == rows[Len(rows)].close

\* a threshold of 2.5 percent in place of 1.5 percent
NearLevelWide(current_price, level) ==
    1000 * Abs(current_price - level) < 25 * current_price

\* abs(current_price - level) / current_price < 0.015
NearLevel(current_price, level) ==
    1000 * Abs(current_price - level) < 15 * current_price

_check_level_approach(rows, lv, current_price) ==
    LET near(s) == [i \in 1..Len(s) |-> NearLevel(current_price, s[i])]
        \* distance_percent in hundredths of a percent
        dist(l) == RoundHalfEven(10000 * Abs(current_price - l), current_price)
        sup(l) == _create_signal("level_approach", "bullish", current_price,
                     [level_type |-> "support", level_price |-> l,
                      distance_percent |-> dist(l)], "high")
        res(l) == _create_signal("level_approach", "bearish", current_price,
                     [level_type |-> "resistance", level_price |-> l,
                      distance_percent |-> dist(l)], "high")
        supports == Head_(lv.support, 3)
        resistances == Head_(lv.resistance, 3)
    IN  Kept([i \in 1..Len(supports) |-> sup(supports[i])], near(supports))
        \o Kept([i \in 1..Len(resistances) |-> res(resistances[i])],
                near(resistances))

\* a confirmation that compares with the mean itself, without the factor 1.5
VolumeConfirmAboveMean(rows) ==
    LET n == Len(rows)
        k == Min(n, 20)
    IN  k * rows[n].volume > SumOf(Col(rows, "volume"), n - k + 1, n)

\* current_volume > avg_volume * 1.5, avg_volume the mean of the last 20 volumes
VolumeConfirm(rows) ==
    LET n == Len(rows)
        k == Min(n, 20)
    IN  2 * k * rows[n].volume > 3 * SumOf(Col(rows, "volume"), n - k + 1, n)

\* round(current_volume / avg_volume, 2), in hundredths
VolumeRatio(rows) ==
    LET n == Len(rows)
        k == Min(n, 20)
        total == SumOf(Col(rows, "volume"), n - k + 1, n)
    IN  IF total = 0 THEN NaN ELSE RoundHalfEven(100 * k * rows[n].volume, total)

\* a break that counts a price resting on the level: <= and >= for < and >
CheckBreakoutsOnTouch(rows, lv, current_price) ==
    IF Len(rows) < 2 THEN <<>>
    ELSE
    LET prev_price == rows[Len(rows) - 1].close
        volume_confirm == VolumeConfirm(rows)
        mk(dir, l) == _create_signal("breakout", dir, current_price,
                        [broken_level |-> l, volume_confirmed |-> volume_confirm,
                         volume_ratio |-> VolumeRatio(rows)],
                        IF volume_confirm THEN "high" ELSE "medium")
        up(l) == prev_price <= l /\ current_price >= l
        down(l) == prev_price >= l /\ current_price <= l
        resistances == Head_(lv.resistance, 2)
        supports == Head_(lv.support, 2)
    IN  Kept([i \in 1..Len(resistances) |-> mk("bullish", resistances[i])],
             [i \in 1..Len(resistances) |-> up(resistances[i])])
        \o Kept([i \in 1..Len(supports) |-> mk("bearish", supports[i])],
                [i \in 1..Len(supports) |-> down(supports[i])])

_check_breakouts(rows, lv, current_price) ==
    IF Len(rows) < 2 THEN <<>>
    ELSE
    LET prev_price == rows[Len(rows) - 1].close
        volume_confirm == VolumeConfirm(rows)
        mk(dir, l) == _create_signal("breakout", dir, current_price,
                        [broken_level |-> l, volume_confirmed |-> volume_confirm,
                         volume_ratio |-> VolumeRatio(rows)],
                        IF volume_confirm THEN "high" ELSE "medium")
        up(l) == prev_price < l /\ current_price > l
        down(l) == prev_price > l /\ current_price < l
        resistances == Head_(lv.resistance, 2)
        supports == Head_(lv.support, 2)
    IN  Kept([i \in 1..Len(resistances) |-> mk("bullish", resistances[i])],
             [i \in 1..Len(resistances) |-> up(resistances[i])])
        \o Kept([i \in 1..Len(supports) |-> mk("bearish", supports[i])],
                [i \in 1..Len(supports) |-> down(supports[i])])

_check_false_breakouts(rows, lv) ==
    IF Len(rows) < 5 THEN <<>>
    ELSE
    LET n == Len(rows)
        current_price == rows[n].close
        recent_high == MaxOf(Col(rows, "high"), n - 4, n)
        recent_low == MinOf(Col(rows, "low"), n - 4, n)
        prev_close == rows[n - 1].close
        failUp(l) == recent_high > l /\ current_price < l /\ prev_close > l
        failDown(l) == recent_low < l /\ current_price > l /\ prev_close < l
        res(l) == _create_signal("false_breakout", "bearish", current_price,
                     [failed_level |-> l, level_type |-> "resistance",
                      fake_high |-> recent_high], "high")
        sup(l) == _create_signal("false_breakout", "bullish", current_price,
                     [failed_level |-> l, level_type |-> "support",
                      fake_low |-> recent_low], "high")
        resistances == Head_(lv.resistance, 2)
        supports == Head_(lv.support, 2)
    IN  Kept([i \in 1..Len(resistances) |-> res(resistances[i])],
             [i \in 1..Len(resistances) |-> failUp(resistances[i])])
        \o Kept([i \in 1..Len(supports) |-> sup(supports[i])],
                [i \in 1..Len(supports) |-> failDown(supports[i])])

-----------------------------------------------------------------------------
(* SmartMoneyAnalysis (analysis/smart_money.py) *)

FVG_MIN_SIZE_x10 == 5          \* FVG_MIN_SIZE = 0.5 percent, in tenths
ORDER_BLOCK_LOOKBACK == 20

\* a percentage num / den kept exact
Ratio(num, den) == [num |-> num, den |-> den]
RatioGt(a, b) == a.num * b.den > b.num * a.den

\* the order block record of row p (1-based), or the empty list
OrderBlockAt(rows, p) ==
    LET current == rows[p]
        next_candle == rows[p + 1]
        range == next_candle.high - next_candle.low
        mk(kind, den) == <<[type |-> kind, timestamp |-> p,
                            price_low |-> current.low, price_high |-> current.high,
                            strength |-> Ratio(100 * range, den)]>>
    IN  IF next_candle.close > next_candle.open
        THEN IF 100 * range > 2 * next_candle.low
             THEN mk("bullish", next_candle.low) ELSE <<>>
        ELSE IF next_candle.close < next_candle.open
        THEN IF 100 * range > 2 * next_candle.high
             THEN mk("bearish", next_candle.high) ELSE <<>>
        ELSE <<>>

\* a scan that starts at the first row instead of row lookback
FindOrderBlocksFromStart(rows, lookback) ==
    Flatten([p \in 1..(Len(rows) - 1) |-> OrderBlockAt(rows, p)], 1, Len(rows) - 1)

\* for i in range(lookback, len(df) - 1): rows lookback + 1 .. len - 1 (1-based)
find_order_blocks(rows, lookback) ==
    Flatten([p \in (lookback + 1)..(Len(rows) - 1) |-> OrderBlockAt(rows, p)],
            lookback + 1, Len(rows) - 1)

\* the gap record closed by row p (1-based, p >= 3), or the empty list
FairValueGapAt(rows, p, min_gap_x10) ==
    LET candle_1 == rows[p - 2]
        candle_3 == rows[p]
        up == candle_3.low - candle_1.high
        down == candle_1.low - candle_3.high
    IN  IF candle_1.high < candle_3.low
        THEN IF 1000 * up >= min_gap_x10 * candle_1.high
             THEN <<[type |-> "bullish", timestamp |-> p,
                     gap_low |-> candle_1.high, gap_high |-> candle_3.low,
                     size |-> Ratio(100 * up, candle_1.high), filled |-> FALSE]>>
             ELSE <<>>
        ELSE IF candle_1.low > candle_3.high
        THEN IF 1000 * down >= min_gap_x10 * candle_3.high
             THEN <<[type |-> "bearish", timestamp |-> p,
                     gap_low |-> candle_3.high, gap_high |-> candle_1.low,
                     size |-> Ratio(100 * down, candle_3.high), filled |-> FALSE]>>
             ELSE <<>>
        ELSE <<>>

\* a scan that starts one row late: range(3, len(df))
FindFairValueGapsFromFourth(rows, min_gap_x10) ==
    Flatten([p \in 4..Len(rows) |-> FairValueGapAt(rows, p, min_gap_x10)],
            4, Len(rows))

\* for i in range(2, len(df)): rows 3 .. len (1-based)
find_fair_value_gaps(rows, min_gap_x10) ==
    Flatten([p \in 3..Len(rows) |-> FairValueGapAt(rows, p, min_gap_x10)],
            3, Len(rows))

\* for i in range(1, len(swing_highs)): a higher swing high
BullishBos(sw, last) ==
    LET at == [i \in 2..Len(sw) |->
            IF sw[i] > sw[i - 1]
            THEN <<[type |-> "bullish_bos", timestamp |-> last,
                    previous_high |-> sw[i - 1], new_high |-> sw[i],
                    strength |-> Ratio(100 * (sw[i] - sw[i - 1]), sw[i - 1])]>>
            ELSE <<>>]
    IN  Flatten(at, 2, Len(sw))

\* for i in range(1, len(swing_lows)): a lower swing low
BearishBos(sw, last) ==
    LET at == [i \in 2..Len(sw) |->
            IF sw[i] < sw[i - 1]
            THEN <<[type |-> "bearish_bos", timestamp |-> last,
                    previous_low |-> sw[i - 1], new_low |-> sw[i],
                    strength |-> Ratio(100 * (sw[i - 1] - sw[i]), sw[i - 1])]>>
            ELSE <<>>]
    IN  Flatten(at, 2, Len(sw))

\* the breaks with the bearish ones listed first
DetectBreakOfStructureBearishFirst(rows, swing_period) ==
    LET n == Len(rows)
        high == Col(rows, "high")
        low == Col(rows, "low")
        swing_highs == ValuesAt(high, ExtremaIdx(high, swing_period, "max"))
        swing_lows == ValuesAt(low, ExtremaIdx(low, swing_period, "min"))
    IN  BearishBos(swing_lows, n) \o BullishBos(swing_highs, n)

detect_break_of_structure(rows, swing_period) ==
    LET n == Len(rows)
        high == Col(rows, "high")
        low == Col(rows, "low")
        \* df[df['is_swing_high']]['high'].tolist() and its low counterpart
        swing_highs == ValuesAt(high, ExtremaIdx(high, swing_period, "max"))
        swing_lows == ValuesAt(low, ExtremaIdx(low, swing_period, "min"))
    IN  BullishBos(swing_highs, n) \o BearishBos(swing_lows, n)

\* the columns detect_break_of_structure writes into the caller's frame
BosColumns == {"swing_high", "swing_low", "is_swing_high", "is_swing_low"}

\* abs(f[i] - f[k]) / f[i] < 0.002, false when row k does not exist (NaN)
EqualTo(f, n, i, k) ==
    k >= 1 /\ k <= n /\ 1000 * Abs(f[i] - f[k]) < 2 * f[i]

LiquidityZonesOf(f, n, kind) ==
    LET idx == SelectIdx([i \in 1..n |-> EqualTo(f, n, i, i - 1)
                                         \/ EqualTo(f, n, i, i + 1)], 1, n)
    IN  [k \in 1..Len(idx) |->
            [type |-> kind, timestamp |-> idx[k], price |-> f[idx[k]], touches |-> 2]]

\* the zones with the support side first
FindLiquidityZonesSupportFirst(rows) ==
    LiquidityZonesOf(Col(rows, "low"), Len(rows), "support_liquidity")
    \o LiquidityZonesOf(Col(rows, "high"), Len(rows), "resistance_liquidity")

find_liquidity_zones(rows) ==
    LiquidityZonesOf(Col(rows, "high"), Len(rows), "resistance_liquidity")
    \o LiquidityZonesOf(Col(rows, "low"), Len(rows), "support_liquidity")

\* the columns find_liquidity_zones writes into the caller's frame
LiquidityColumns == {"prev_high", "next_high", "prev_low", "next_low"}

detect_liquidity_sweep(rows, liquidity_zones) ==
    LET n == Len(rows)
        current_price == rows[n].close
        high_breach == MaxOf(Col(rows, "high"), 1, n)
        low_breach == MinOf(Col(rows, "low"), 1, n)
        swept(z) ==
            IF z.type = "resistance_liquidity"
            THEN high_breach > z.price /\ current_price < z.price
            ELSE z.type = "support_liquidity"
                 /\ low_breach < z.price /\ current_price > z.price
        idx == SelectIdx([i \in 1..Len(liquidity_zones) |-> swept(liquidity_zones[i])],
                         1, Len(liquidity_zones))
    IN  [k \in 1..Len(idx) |->
            LET z == liquidity_zones[idx[k]]
            IN  IF z.type = "resistance_liquidity"
                THEN [type |-> "bearish_sweep", timestamp |-> n,
                      liquidity_level |-> z.price, sweep_high |-> high_breach,
                      current_price |-> current_price]
                ELSE [type |-> "bullish_sweep", timestamp |-> n,
                      liquidity_level |-> z.price, sweep_low |-> low_breach,
                      current_price |-> current_price]]

-----------------------------------------------------------------------------
(* TechnicalAnalysis (analysis/technical.py) *)

\* Python truthiness of a value read from an optional column
Truthy(present, x) == present /\ x # 0

detect_trend(d) ==
    IF Len(d.rows) < 50 THEN [trend |-> "unknown", strength |-> 0]
    ELSE
    LET current_price == CurrentPrice(d.rows)
        has(c) == c \in d.columns
        sma_20 == d.ind.sma_20
        sma_50 == d.ind.sma_50
        ema_9 == d.ind.ema_9
        ema_21 == d.ind.ema_21
        ma(present, x) ==
            IF Truthy(present, x) /\ Gt(current_price, x) THEN <<1, 0>>
            ELSE IF Truthy(present, x) /\ Lt(current_price, x) THEN <<0, 1>>
            ELSE <<0, 0>>
        cross == IF Truthy(has("ema_9"), ema_9) /\ Truthy(has("ema_21"), ema_21)
                 THEN IF Gt(ema_9, ema_21) THEN <<2, 0>> ELSE <<0, 2>>
                 ELSE <<0, 0>>
        a == ma(has("sma_20"), sma_20)
        b == ma(has("sma_50"), sma_50)
        bullish_signals == a[1] + b[1] + cross[1]
        bearish_signals == a[2] + b[2] + cross[2]
        total_signals == bullish_signals + bearish_signals
        \* round(strength, 2) in hundredths of a percent
        strength == RoundHalfEven(10000 * Abs(bullish_signals - bearish_signals),
                                  total_signals)
    IN  IF total_signals = 0 THEN [trend |-> "sideways", strength |-> 0]
        ELSE IF bullish_signals > bearish_signals
             THEN [trend |-> "bullish", strength |-> strength]
        ELSE IF bearish_signals > bullish_signals
             THEN [trend |-> "bearish", strength |-> strength]
        ELSE [trend |-> "sideways", strength |-> 0]

\* the index (0..100); score / max_score * 100 with max_score = 10
calculate_strength_index(d) ==
    IF Len(d.rows) < 50 THEN 0
    ELSE
    LET n == Len(d.rows)
        current_price == CurrentPrice(d.rows)
        has(c) == c \in d.columns
        pt(cond, k) == IF cond THEN k ELSE 0
        rsi == d.rows[n].rsi
        score ==
            pt(has("sma_20") /\ Gt(current_price, d.ind.sma_20), 1)
            + pt(has("sma_50") /\ Gt(current_price, d.ind.sma_50), 1)
            + pt(has("ema_21") /\ Gt(current_price, d.ind.ema_21), 1)
            + (IF ~has("rsi") THEN 0
               ELSE IF Lt(40, rsi) /\ Lt(rsi, 70) THEN 2
               ELSE IF Lt(30, rsi) /\ Lt(rsi, 80) THEN 1 ELSE 0)
            + pt(has("macd") /\ has("macd_signal")
                 /\ Gt(d.rows[n].macd, d.ind.macd_signal), 2)
            + pt(has("volume_ratio") /\ Gt(d.ind.volume_ratio, 100), 2)
            + pt(has("atr") /\ Gt(d.ind.atr, d.ind.atr_mean), 1)
    IN  10 * score

\* the divergences found when an undefined oscillator value counts as 0
DivergencesNaNAsZero(d, lookback, osc) ==
    IF osc \notin d.columns \/ Len(d.rows) < lookback THEN <<>>
    ELSE
    LET recent == Tail_(d.rows, lookback)
        high == Col(recent, "high")
        low == Col(recent, "low")
        o == [i \in 1..Len(recent) |->
                 IF recent[i][osc] = NaN THEN 0 ELSE recent[i][osc]]
        hp == ExtremaIdx(high, 2, "max")
        lp == ExtremaIdx(low, 2, "min")
        l1 == lp[Len(lp) - 1]
        l2 == lp[Len(lp)]
        h1 == hp[Len(hp) - 1]
        h2 == hp[Len(hp)]
    IN  (IF Len(lp) >= 2 /\ low[l2] < low[l1] /\ o[l2] > o[l1]
         THEN <<[type |-> "bullish", price1 |-> low[l1], price2 |-> low[l2],
                 osc1 |-> o[l1], osc2 |-> o[l2]]>>
         ELSE <<>>)
        \o
        (IF Len(hp) >= 2 /\ high[h2] > high[h1] /\ o[h2] < o[h1]
         THEN <<[type |-> "bearish", price1 |-> high[h1], price2 |-> high[h2],
                 osc1 |-> o[h1], osc2 |-> o[h2]]>>
         ELSE <<>>)

\* the shared body of find_rsi_divergence and find_macd_divergence on the
\* oscillator column osc: the divergences found, each with the two price
\* points and the two oscillator points it compares
Divergences(d, lookback, osc) ==
    IF osc \notin d.columns \/ Len(d.rows) < lookback THEN <<>>
    ELSE
    LET recent == Tail_(d.rows, lookback)
        high == Col(recent, "high")
        low == Col(recent, "low")
        o == Col(recent, osc)
        hp == ExtremaIdx(high, 2, "max")
        lp == ExtremaIdx(low, 2, "min")
        l1 == lp[Len(lp) - 1]
        l2 == lp[Len(lp)]
        h1 == hp[Len(hp) - 1]
        h2 == hp[Len(hp)]
    IN  (IF Len(lp) >= 2 /\ low[l2] < low[l1] /\ Gt(o[l2], o[l1])
         THEN <<[type |-> "bullish", price1 |-> low[l1], price2 |-> low[l2],
                 osc1 |-> o[l1], osc2 |-> o[l2]]>>
         ELSE <<>>)
        \o
        (IF Len(hp) >= 2 /\ high[h2] > high[h1] /\ Lt(o[h2], o[h1])
         THEN <<[type |-> "bearish", price1 |-> high[h1], price2 |-> high[h2],
                 osc1 |-> o[h1], osc2 |-> o[h2]]>>
         ELSE <<>>)

find_rsi_divergence(d, lookback) ==
    LET found == Divergences(d, lookback, "rsi")
    IN  [i \in 1..Len(found) |->
            [type |-> found[i].type, price_point1 |-> found[i].price1,
             price_point2 |-> found[i].price2, rsi_point1 |-> found[i].osc1,
             rsi_point2 |-> found[i].osc2, timestamp |-> Len(d.rows)]]

find_macd_divergence(d, lookback) ==
    LET found == Divergences(d, lookback, "macd")
    IN  [i \in 1..Len(found) |->
            [type |-> found[i].type, indicator |-> "MACD",
             timestamp |-> Len(d.rows)]]

-----------------------------------------------------------------------------
(* PatternRecognition (analysis/patterns.py) *)

\* np.polyfit(range(len(y)), y, 1)[0] as the exact fraction num / den, den > 0;
\* y is shifted by y[1], which leaves the slope unchanged
Slope(y) ==
    LET k == Len(y)
        x == [i \in 1..k |-> i - 1]
        v == [i \in 1..k |-> y[i] - y[1]]
        xv == [i \in 1..k |-> x[i] * v[i]]
        xx == [i \in 1..k |-> x[i] * x[i]]
        sx == SumOf(x, 1, k)
    IN  Ratio(k * SumOf(xv, 1, k) - sx * SumOf(v, 1, k),
              k * SumOf(xx, 1, k) - sx * sx)

\* abs(slope) < 0.001
SlopeNearZero(sl) == Abs(sl.num) < sl.den /\ 1000 * Abs(sl.num) < sl.den

find_triangles(rows, lookback) ==
    IF Len(rows) < lookback THEN <<>>
    ELSE
    LET recent == Tail_(rows, lookback)
        high == Col(recent, "high")
        low == Col(recent, "low")
        high_points == ValuesAt(high, ExtremaIdx(high, 2, "max"))
        low_points == ValuesAt(low, ExtremaIdx(low, 2, "min"))
        high_slope == Slope(high_points)
        low_slope == Slope(low_points)
    IN  IF Len(high_points) >= 2 /\ Len(low_points) >= 2
        THEN IF SlopeNearZero(high_slope) /\ low_slope.num > 0
             THEN <<[type |-> "ascending_triangle", direction |-> "bullish",
                     support_slope |-> low_slope, reliability |-> "high"]>>
             ELSE IF SlopeNearZero(low_slope) /\ high_slope.num < 0
             THEN <<[type |-> "descending_triangle", direction |-> "bearish",
                     resistance_slope |-> high_slope, reliability |-> "high"]>>
             ELSE IF high_slope.num < 0 /\ low_slope.num > 0
             THEN <<[type |-> "symmetrical_triangle", direction |-> "neutral",
                     apex_near |-> 10 * Len(recent) > 8 * lookback,
                     reliability |-> "medium"]>>
             ELSE <<>>
        ELSE <<>>

find_head_and_shoulders(rows, lookback) ==
    IF Len(rows) < lookback THEN <<>>
    ELSE
    LET recent == Tail_(rows, lookback)
        high == Col(recent, "high")
        low == Col(recent, "low")
        peaks == Tail_(ValuesAt(high, ExtremaIdx(high, 3, "max")), 3)
        valleys == Tail_(ValuesAt(low, ExtremaIdx(low, 3, "min")), 3)
    IN  (IF Len(peaks) >= 3 /\ peaks[2] > peaks[1] /\ peaks[2] > peaks[3]
            /\ 100 * Abs(peaks[1] - peaks[3]) < 5 * peaks[1]
         THEN <<[type |-> "head_and_shoulders", direction |-> "bearish",
                 left_shoulder |-> peaks[1], head |-> peaks[2],
                 right_shoulder |-> peaks[3], reliability |-> "high"]>>
         ELSE <<>>)
        \o
        (IF Len(valleys) >= 3 /\ valleys[2] < valleys[1] /\ valleys[2] < valleys[3]
            /\ 100 * Abs(valleys[1] - valleys[3]) < 5 * valleys[1]
         THEN <<[type |-> "inverse_head_and_shoulders", direction |-> "bullish",
                 left_shoulder |-> valleys[1], head |-> valleys[2],
                 right_shoulder |-> valleys[3], reliability |-> "high"]>>
         ELSE <<>>)

find_flags_and_pennants(rows) ==
    IF Len(rows) < 30 THEN <<>>
    ELSE
    LET n == Len(rows)
        from == rows[n - 29].close              \* df['close'].iloc[-30]
        to == rows[n - 19].close                \* df['close'].iloc[-20]
        volatility == MaxOf(Col(rows, "high"), n - 9, n)
                      - MinOf(Col(rows, "low"), n - 9, n)
        ranges == [i \in 1..n |-> rows[i].high - rows[i].low]
        up == to > from
    IN  \* abs(price_change) > 0.05 and volatility < avg_volatility * 0.7
        IF 100 * Abs(to - from) > 5 * from
           /\ 300 * volatility < 7 * SumOf(ranges, n - 29, n)
        THEN <<[type |-> IF up THEN "bull_flag" ELSE "bear_flag",
                direction |-> IF up THEN "bullish" ELSE "bearish",
                flagpole_move |-> (IF up THEN 1 ELSE -1)
                                  * RoundHalfEven(10000 * Abs(to - from), from),
                consolidation_range |-> volatility,
                reliability |-> "medium"]>>
        ELSE <<>>

find_double_top_bottom(rows, lookback) ==
    IF Len(rows) < lookback THEN <<>>
    ELSE
    LET recent == Tail_(rows, lookback)
        high == Col(recent, "high")
        low == Col(recent, "low")
        peaks == Tail_(ValuesAt(high, ExtremaIdx(high, 2, "max")), 2)
        valleys == Tail_(ValuesAt(low, ExtremaIdx(low, 2, "min")), 2)
    IN  (IF Len(peaks) >= 2 /\ 100 * Abs(peaks[1] - peaks[2]) < 2 * peaks[1]
         THEN <<[type |-> "double_top", direction |-> "bearish",
                 level |-> Ratio(peaks[1] + peaks[2], 2), reliability |-> "high"]>>
         ELSE <<>>)
        \o
        (IF Len(valleys) >= 2 /\ 100 * Abs(valleys[1] - valleys[2]) < 2 * valleys[1]
         THEN <<[type |-> "double_bottom", direction |-> "bullish",
                 level |-> Ratio(valleys[1] + valleys[2], 2), reliability |-> "high"]>>
         ELSE <<>>)

detect_candlestick_patterns(rows) ==
    IF Len(rows) < 3 THEN <<>>
    ELSE
    LET last_candle == rows[Len(rows)]
        prev_candle == rows[Len(rows) - 1]
        body == Abs(last_candle.close - last_candle.open)
        upper_shadow == last_candle.high - Max(last_candle.close, last_candle.open)
        lower_shadow == Min(last_candle.close, last_candle.open) - last_candle.low
        candle_range == last_candle.high - last_candle.low
        prev_body == Abs(prev_candle.close - prev_candle.open)
        pat(cond, kind, dir, rel) ==
            IF cond THEN <<[type |-> kind, direction |-> dir, reliability |-> rel]>>
            ELSE <<>>
    IN  pat(lower_shadow > body * 2 /\ 10 * upper_shadow < 3 * body
            /\ last_candle.close > last_candle.open,
            "hammer", "bullish", "medium")
        \o pat(upper_shadow > body * 2 /\ 10 * lower_shadow < 3 * body
               /\ last_candle.close < last_candle.open,
               "shooting_star", "bearish", "medium")
        \o pat(10 * body < candle_range, "doji", "neutral", "low")
        \o pat(prev_candle.close < prev_candle.open
               /\ last_candle.close > last_candle.open
               /\ last_candle.close > prev_candle.open
               /\ last_candle.open < prev_candle.close
               /\ body > prev_body,
               "bullish_engulfing", "bullish", "high")
        \o pat(prev_candle.close > prev_candle.open
               /\ last_candle.close < last_candle.open
               /\ last_candle.close < prev_candle.open
               /\ last_candle.open > prev_candle.close
               /\ body > prev_body,
               "bearish_engulfing", "bearish", "high")

-----------------------------------------------------------------------------
(* SignalGenerator.analyze_symbol: what each category selects *)

\* an evaluation order with the pattern block moved to the front
CategoryOrderPatternFirst ==
    <<"pattern", "structure_break", "level_approach", "breakout",
      "false_breakout", "imbalance", "order_block", "liquidity_sweep",
      "divergence", "volume_spike">>

\* the order in which analyze_symbol evaluates the categories
CategoryOrder ==
    <<"structure_break", "level_approach", "breakout", "false_breakout",
      "imbalance", "order_block", "liquidity_sweep", "divergence", "pattern",
      "volume_spike">>

\* the list used when enabled_signals is None
DefaultEnabled == CategoryOrder \o <<"confluence">>

Detectors == {CategoryOrder[i] : i \in 1..Len(CategoryOrder)}

\* the blocks as detected, without the sort
InDetectionOrder(s) == s

\* sorted(s, key = strength, reverse = True): the sort is stable, so element i
\* comes after the stronger elements and after the equally strong earlier ones
SortedByStrength(s) ==
    LET before(i) == {k \in 1..Len(s) :
                        \/ RatioGt(s[k].strength, s[i].strength)
                        \/ k < i /\ ~RatioGt(s[i].strength, s[k].strength)}
    IN  [pos \in 1..Len(s) |->
            s[CHOOSE i \in 1..Len(s) : Cardinality(before(i)) = pos - 1]]

SelectStructureBreak(d, price) ==
    LET mk(bos) == _create_signal("structure_break",
                       IF bos.type = "bullish_bos" THEN "bullish" ELSE "bearish",
                       price, bos, "high")
        last2 == Tail_(detect_break_of_structure(d.rows, 5), 2)
    IN  [i \in 1..Len(last2) |-> mk(last2[i])]

\* a level_approach block that forgets its [:3]
SelectLevelApproachUncut(d, lv, price) == _check_level_approach(d.rows, lv, price)

SelectLevelApproach(d, lv, price) == Head_(_check_level_approach(d.rows, lv, price), 3)

SelectBreakout(d, lv, price) == Head_(_check_breakouts(d.rows, lv, price), 2)

SelectFalseBreakout(d, lv) == Head_(_check_false_breakouts(d.rows, lv), 2)

SelectImbalance(d, price) ==
    LET last3 == Tail_(find_fair_value_gaps(d.rows, FVG_MIN_SIZE_x10), 3)
        idx == SelectIdx([i \in 1..Len(last3) |-> ~last3[i].filled], 1, Len(last3))
        mk(i) == _create_signal("imbalance", last3[i].type, price, last3[i], "medium")
    IN  [k \in 1..Len(idx) |-> mk(idx[k])]

SelectOrderBlock(d, price) ==
    LET order_blocks == find_order_blocks(d.rows, ORDER_BLOCK_LOOKBACK)
        sorted_ob == SortedByStrength(order_blocks)
        mk(ob) == _create_signal("order_block", ob.type, price, ob, "high")
        top2 == Head_(sorted_ob, 2)
    IN  [i \in 1..Len(top2) |-> mk(top2[i])]

SelectLiquiditySweep(d, price) ==
    LET sweeps == detect_liquidity_sweep(d.rows, find_liquidity_zones(d.rows))
        mk(sw) == _create_signal("liquidity_sweep",
                      IF sw.type = "bullish_sweep" THEN "bullish" ELSE "bearish",
                      price, sw, "high")
        first2 == Head_(sweeps, 2)
    IN  [i \in 1..Len(first2) |-> mk(first2[i])]

SelectDivergence(d, price) ==
    LET mk(div) == _create_signal("divergence", div.type, price, div, "high")
        first2 == Head_(find_rsi_divergence(d, 50) \o find_macd_divergence(d, 50), 2)
    IN  [i \in 1..Len(first2) |-> mk(first2[i])]

\* a pattern block that cuts to 3 detections before it filters them
SelectPatternCutFirst(d, price) ==
    LET all_patterns == Head_(find_triangles(d.rows, 50)
                              \o find_head_and_shoulders(d.rows, 100)
                              \o find_flags_and_pennants(d.rows)
                              \o find_double_top_bottom(d.rows, 50)
                              \o detect_candlestick_patterns(d.rows), 3)
        idx == SelectIdx([i \in 1..Len(all_patterns) |->
                             all_patterns[i].reliability \in {"high", "medium"}],
                         1, Len(all_patterns))
        high_reliability == ValuesAt(all_patterns, idx)
        mk(p) == _create_signal("pattern", p.direction, price, p,
                     IF p.reliability = "high" THEN "medium" ELSE "low")
    IN  [i \in 1..Len(high_reliability) |-> mk(high_reliability[i])]

SelectPattern(d, price) ==
    LET all_patterns == find_triangles(d.rows, 50)
                        \o find_head_and_shoulders(d.rows, 100)
                        \o find_flags_and_pennants(d.rows)
                        \o find_double_top_bottom(d.rows, 50)
                        \o detect_candlestick_patterns(d.rows)
        idx == SelectIdx([i \in 1..Len(all_patterns) |->
                             all_patterns[i].reliability \in {"high", "medium"}],
                         1, Len(all_patterns))
        high_reliability == ValuesAt(all_patterns, idx)
        mk(p) == _create_signal("pattern", p.direction, price, p,
                     IF p.reliability = "high" THEN "medium" ELSE "low")
        first3 == Head_(high_reliability, 3)
    IN  [i \in 1..Len(first3) |-> mk(first3[i])]

\* what the block of a category appends to all_signals when nothing raises
Selected(cat, d, lv) ==
    LET price == CurrentPrice(d.rows)
    IN  CASE cat = "structure_break" -> SelectStructureBreak(d, price)
          [] cat = "level_approach"  -> SelectLevelApproach(d, lv, price)
          [] cat = "breakout"        -> SelectBreakout(d, lv, price)
          [] cat = "false_breakout"  -> SelectFalseBreakout(d, lv)
          [] cat = "imbalance"       -> SelectImbalance(d, price)
          [] cat = "order_block"     -> SelectOrderBlock(d, price)
          [] cat = "liquidity_sweep" -> SelectLiquiditySweep(d, price)
          [] cat = "divergence"      -> SelectDivergence(d, price)
          [] cat = "pattern"         -> SelectPattern(d, price)
          [] OTHER                   -> <<>>

\* the columns the detectors of a category write into the caller's frame
WrittenColumns(cat) ==
    CASE cat = "structure_break" -> BosColumns
      [] cat = "liquidity_sweep" -> LiquidityColumns
      [] OTHER -> {}

\* self.processor.detect_volume_anomaly: DataProcessor defines no such method,
\* the attribute lookup raises AttributeError
HasDetectVolumeAnomaly == FALSE

\* the block of cat raises: the injected detector failure, or the missing method
Raises(cat, flt) ==
    \/ cat = flt
    \/ cat = "volume_spike" /\ ~HasDetectVolumeAnomaly

\* the loop that annotates every signal collected so far
Annotated(signals, d) ==
    LET n == Len(d.rows)
        base == [trend |-> detect_trend(d),
                 strength_index |-> calculate_strength_index(d)]
        rsi == IF "rsi" \in d.columns THEN [rsi |-> d.rows[n].rsi] ELSE <<>>
        macd == IF "macd" \in d.columns THEN [macd |-> d.rows[n].macd] ELSE <<>>
    IN  [i \in 1..Len(signals) |-> signals[i] @@ base @@ rsi @@ macd]

\* the types of all signals, whatever their direction
TypesOfAnyDirection(signals, dir) ==
    {signals[i].type : i \in 1..Len(signals)}

TypesOf(signals, dir) ==
    {signals[i].type : i \in {k \in 1..Len(signals) : signals[k].direction = dir}}

CountOf(signals, dir) ==
    Cardinality({k \in 1..Len(signals) : signals[k].direction = dir})

\* a confluence synthesis that is content with two distinct types
ConfluenceOfTwoTypes(signals, current_price) ==
    LET zone(dir) ==
            IF Cardinality(TypesOf(signals, dir)) >= 2
            THEN <<_create_signal("confluence", dir, current_price,
                       [factors_count |-> CountOf(signals, dir),
                        unique_types |-> Cardinality(TypesOf(signals, dir)),
                        signal_types |-> TypesOf(signals, dir)],
                       "critical")>>
            ELSE <<>>
    IN  zone("bullish") \o zone("bearish")

_find_confluence_zones(signals, current_price) ==
    LET zone(dir) ==
            IF Cardinality(TypesOf(signals, dir)) >= 3
            THEN <<_create_signal("confluence", dir, current_price,
                       [factors_count |-> CountOf(signals, dir),
                        unique_types |-> Cardinality(TypesOf(signals, dir)),
                        signal_types |-> TypesOf(signals, dir)],
                       "critical")>>
            ELSE <<>>
    IN  zone("bullish") \o zone("bearish")

-----------------------------------------------------------------------------
(* The instances: arguments of one analyze_symbol call and the configuration *)

\* lengths around the minimum lengths of analyze_symbol and of the detectors
Lengths == {19, 20, 22, 30, 50}

Frames ==
    {Frame(sh, t, MaxLen) : sh \in Shapes, t \in TailNames}
    \cup {Frame("bull", "fakedown", n) : n \in Lengths}
    \cup {NoFrame}

EnabledLists ==
    {[isNone |-> TRUE, list |-> <<>>],
     [isNone |-> FALSE, list |-> <<>>],
     [isNone |-> FALSE, list |-> SubSeq(CategoryOrder, 1, 9) \o <<"confluence">>],
     [isNone |-> FALSE,
      list |-> <<"confluence", "pattern", "divergence", "liquidity_sweep",
                 "order_block", "imbalance", "false_breakout", "breakout",
                 "level_approach", "structure_break">>],
     [isNone |-> FALSE, list |-> <<"breakout", "level_approach">>],
     [isNone |-> FALSE, list |-> <<"volume_spike", "level_approach", "confluence">>],
     [isNone |-> FALSE,
      list |-> <<"confluence", "false_breakout", "order_block", "imbalance",
                 "pattern">>]}

\* MAX_SIGNALS_PER_COIN and SHOW_CONFLUENCE as read from the environment
Configs ==
    {[cap |-> 0, show |-> TRUE], [cap |-> 3, show |-> TRUE],
     [cap |-> 10, show |-> TRUE], [cap |-> 10, show |-> FALSE]}

Faults == Detectors \cup {"none"}

InitCall ==
    /\ df \in Frames
    /\ levels \in LevelSets
    /\ enabled_signals \in EnabledLists
    /\ \E c \in Configs : cap = c.cap /\ show_confluence = c.show
    /\ pc = "start"
    /\ enabled = <<>>
    /\ all_signals = <<>>
    /\ raised = "none"
    /\ result = <<>>
    /\ feeds = <<>>
    /\ results = <<>>
    /\ runs = <<>>
    /\ scan = <<>>
    /\ limiter = <<>>

\* well-formed input: no detector fails unexpectedly
Init == InitCall /\ fault = "none"

\* one detector may fail unexpectedly (default configuration)
InitFault ==
    /\ InitCall
    /\ fault \in Faults
    /\ fault # "none" => /\ cap = 10
                         /\ show_confluence
                         /\ Len(df.rows) = MaxLen
                         /\ Len(levels.support) \in {1, MaxLevels}

-----------------------------------------------------------------------------
(* analyze_symbol, block by block *)

NextPc(cat) ==
    LET k == CHOOSE i \in 1..Len(CategoryOrder) : CategoryOrder[i] = cat
    IN  IF k = Len(CategoryOrder) THEN "annotate" ELSE CategoryOrder[k + 1]

\* the guard on the frame and the defaulting of enabled_signals
Enter ==
    /\ pc = "start"
    /\ IF df.isNone \/ Len(df.rows) < 20
       THEN /\ pc' = "done"
            /\ result' = <<>>
            /\ UNCHANGED enabled
       ELSE /\ pc' = CategoryOrder[1]
            /\ enabled' = IF enabled_signals.isNone THEN DefaultEnabled
                          ELSE enabled_signals.list
            /\ UNCHANGED result
    /\ UNCHANGED <<df, levels, enabled_signals, cap, show_confluence, fault,
                   feeds, results, all_signals, raised, runs,
                   scan, limiter>>

\* a block with an except clause of its own: the failure is logged and the
\* evaluation goes on with the next category
BlockWithOwnExcept(cat) ==
    /\ pc = cat
    /\ IF ~InList(cat, enabled)
       THEN /\ pc' = NextPc(cat)
            /\ UNCHANGED <<df, all_signals, raised>>
       ELSE IF Raises(cat, fault)
       THEN /\ pc' = NextPc(cat)
            /\ raised' = cat
            /\ UNCHANGED <<df, all_signals>>
       ELSE /\ pc' = NextPc(cat)
            /\ all_signals' = all_signals \o Selected(cat, df, levels)
            /\ df' = [df EXCEPT !.columns = @ \cup WrittenColumns(cat)]
            /\ UNCHANGED raised
    /\ UNCHANGED <<levels, enabled_signals, cap, show_confluence, fault,
                   feeds, results, enabled, result, runs,
                   scan, limiter>>

\* the block "if cat in enabled_signals: ..." inside the try
Block(cat) ==
    /\ pc = cat
    /\ IF ~InList(cat, enabled)
       THEN /\ pc' = NextPc(cat)
            /\ UNCHANGED <<df, all_signals, raised>>
       ELSE IF Raises(cat, fault)
       THEN \* except Exception: logged, the rest of the try block is skipped
            /\ pc' = "return"
            /\ raised' = cat
            /\ UNCHANGED <<df, all_signals>>
       ELSE /\ pc' = NextPc(cat)
            /\ all_signals' = all_signals \o Selected(cat, df, levels)
            /\ df' = [df EXCEPT !.columns = @ \cup WrittenColumns(cat)]
            /\ UNCHANGED raised
    /\ UNCHANGED <<levels, enabled_signals, cap, show_confluence, fault,
                   feeds, results, enabled, result, runs,
                   scan, limiter>>

StructureBreak == Block("structure_break")
LevelApproach == Block("level_approach")
Breakout == Block("breakout")
FalseBreakout == Block("false_breakout")
Imbalance == Block("imbalance")
OrderBlock == Block("order_block")
LiquiditySweep == Block("liquidity_sweep")
Divergence == Block("divergence")
Pattern == Block("pattern")
VolumeSpike == Block("volume_spike")

\* "for signal in all_signals": trend, strength_index, rsi, macd
Annotate ==
    /\ pc = "annotate"
    /\ all_signals' = Annotated(all_signals, df)
    /\ pc' = "confluence"
    /\ UNCHANGED <<df, levels, enabled_signals, cap, show_confluence, fault,
                   feeds, results, enabled, raised, result, runs,
                   scan, limiter>>

Confluence ==
    /\ pc = "confluence"
    /\ all_signals' =
          IF show_confluence /\ InList("confluence", enabled) /\ Len(all_signals) >= 3
          THEN all_signals \o _find_confluence_zones(all_signals, CurrentPrice(df.rows))
          ELSE all_signals
    /\ pc' = "return"
    /\ UNCHANGED <<df, levels, enabled_signals, cap, show_confluence, fault,
                   feeds, results, enabled, raised, result, runs,
                   scan, limiter>>

\* return all_signals[:MAX_SIGNALS_PER_COIN]
Return ==
    /\ pc = "return"
    /\ result' = PySliceTo(all_signals, cap)
    /\ pc' = "done"
    /\ UNCHANGED <<df, levels, enabled_signals, cap, show_confluence, fault,
                   feeds, results, enabled, all_signals, raised, runs,
                   scan, limiter>>

Next ==
    \/ Enter
    \/ StructureBreak
    \/ LevelApproach
    \/ Breakout
    \/ FalseBreakout
    \/ Imbalance
    \/ OrderBlock
    \/ LiquiditySweep
    \/ Divergence
    \/ Pattern
    \/ VolumeSpike
    \/ Annotate
    \/ Confluence
    \/ Return

Spec == Init /\ [][Next]_vars

SpecFault == InitFault /\ [][Next]_vars

-----------------------------------------------------------------------------
(* Several calls on one SignalGenerator.  analyze_symbol contains no await, *)
(* so the calls of concurrent scan tasks never overlap: an interleaving of  *)
(* scans is a sequence of whole calls.  What a call leaves behind is the    *)
(* frame with the columns it wrote; the generator itself has no fields      *)
(* that a call assigns.                                                     *)

InitRerun ==
    /\ Init
    /\ df \in {Frame(sh, t, MaxLen) : sh \in Shapes, t \in {"scenario", "fakedown"}}
    /\ Len(levels.support) = MaxLevels
    /\ cap = 10
    /\ show_confluence = TRUE

\* a call that keeps the signal list of the call before it, as an attribute
\* of the generator would
RerunOnSharedList ==
    /\ pc = "done"
    /\ Len(runs) < 2
    /\ runs' = Append(runs, [enabled_signals |-> enabled_signals, batch |-> result])
    /\ enabled_signals' \in EnabledLists
    /\ pc' = "start"
    /\ enabled' = <<>>
    /\ raised' = "none"
    /\ result' = <<>>
    /\ UNCHANGED <<df, levels, cap, show_confluence, fault, feeds, results,
                   all_signals, scan, limiter>>

\* the next call, of this or another scan, on the same generator and frame:
\* all_signals = [] and the other locals are created anew
Rerun ==
    /\ pc = "done"
    /\ Len(runs) < 2
    /\ runs' = Append(runs, [enabled_signals |-> enabled_signals, batch |-> result])
    /\ enabled_signals' \in EnabledLists
    /\ pc' = "start"
    /\ enabled' = <<>>
    /\ all_signals' = <<>>
    /\ raised' = "none"
    /\ result' = <<>>
    /\ UNCHANGED <<df, levels, cap, show_confluence, fault, feeds, results,
                   scan, limiter>>

NextRerun == Next \/ Rerun

SpecRerun == InitRerun /\ [][NextRerun]_vars

-----------------------------------------------------------------------------
(* BotHandlers: the scan of one user (bot/handlers.py).                     *)
(* scan.symbols is what get_top_coins returns, each symbol reduced to what  *)
(* get_ohlcv gives for it; scan.stopped records that the stop_scan callback *)
(* was handled while the task was running.                                  *)

InitScan ==
    /\ scan \in [active_scans : {<<>>},
                 enabled_signals : {<<>>, <<"breakout">>},
                 symbols : [1..3 -> {"none", "short", "ok"}],
                 task : {"none"}, i : {0}, analyzed : {0}, processed : {0},
                 total_signals : {<<>>}, saved : {0}, scan_history : {<<>>},
                 scan_results : {<<>>}, replies : {{}}, stopped : {FALSE}]
    /\ limiter = <<>>
    /\ feeds = <<>>
    /\ results = <<>>
    /\ pc = "idle"
    /\ df = NoFrame
    /\ levels = [support |-> <<>>, resistance |-> <<>>]
    /\ enabled_signals = [isNone |-> TRUE, list |-> <<>>]
    /\ cap = 10
    /\ show_confluence = TRUE
    /\ fault = "none"
    /\ enabled = <<>>
    /\ all_signals = <<>>
    /\ raised = "none"
    /\ result = <<>>
    /\ runs = <<>>

\* _start_scan: asyncio.create_task(self._perform_scan(...)), unless no
\* signal type is enabled
_start_scan ==
    /\ scan.task = "none"
    /\ scan' = IF scan.enabled_signals = <<>>
               THEN [scan EXCEPT !.replies = @ \cup {"choose a signal type"}]
               ELSE [scan EXCEPT !.replies = @ \cup {"scan started"},
                                 !.task = "running"]
    /\ UNCHANGED <<df, levels, enabled_signals, cap, show_confluence, fault, pc,
                   enabled, all_signals, raised, result, feeds, results, runs,
                   limiter>>

\* _stop_scan: if user_id in self.active_scans: self.active_scans[user_id] = False
_stop_scan ==
    /\ scan' = [scan EXCEPT
                   !.active_scans = [u \in DOMAIN @ |-> FALSE],
                   !.replies = @ \cup {"scan stopped"},
                   !.stopped = @ \/ scan.task = "running"]
    /\ UNCHANGED <<df, levels, enabled_signals, cap, show_confluence, fault, pc,
                   enabled, all_signals, raised, result, feeds, results, runs,
                   limiter>>

\* one pass of "for symbol in symbols": a missing or short series is skipped;
\* otherwise add_technical_indicators runs and the call of
\* self.processor.find_support_resistance, which DataProcessor does not
\* define, raises AttributeError, which the except clause of the pass logs
_perform_scan ==
    /\ scan.task = "running"
    /\ scan.i < Len(scan.symbols)
    /\ scan' = IF scan.symbols[scan.i + 1] \in {"none", "short"}
               THEN [scan EXCEPT !.i = @ + 1]
               ELSE [scan EXCEPT !.i = @ + 1, !.analyzed = @ + 1]
    /\ UNCHANGED <<df, levels, enabled_signals, cap, show_confluence, fault, pc,
                   enabled, all_signals, raised, result, feeds, results, runs,
                   limiter>>

\* after the loop: create_scan_history and _send_scan_results
SendScanResults ==
    /\ scan.task = "running"
    /\ scan.i = Len(scan.symbols)
    /\ scan' = [scan EXCEPT
                   !.task = "finished",
                   !.scan_history = Append(@, [processed |-> scan.processed,
                                               signals |-> Len(scan.total_signals)]),
                   !.scan_results = Append(@, [total_signals |-> scan.total_signals,
                                               processed |-> scan.processed])]
    /\ UNCHANGED <<df, levels, enabled_signals, cap, show_confluence, fault, pc,
                   enabled, all_signals, raised, result, feeds, results, runs,
                   limiter>>

NextScan == _start_scan \/ _stop_scan \/ _perform_scan \/ SendScanResults

SpecScan == InitScan /\ [][NextScan]_vars

-----------------------------------------------------------------------------
(* RateLimiter (utils/rate_limiter.py), one key.                            *)
(* The clock limiter.time counts in 1 / Second of a second.  Each caller    *)
(* calls acquire once, not later than LastCall; the lock hands over in the  *)
(* order of arrival; limiter.granted lists the time of every grant.         *)

InitLimiter ==
    /\ limiter \in [calls_per_minute : {2, 3}, calls_per_second : {1, 2},
                    minute_history : {<<>>}, second_history : {<<>>},
                    lock : {0}, waiters : {<<>>},
                    pc : {[c \in 1..NumCallers |-> "idle"]},
                    wake_at : {[c \in 1..NumCallers |-> 0]},
                    time : {0}, granted : {<<>>}]
    /\ limiter.calls_per_second <= limiter.calls_per_minute
    /\ scan = <<>>
    /\ feeds = <<>>
    /\ results = <<>>
    /\ pc = "idle"
    /\ df = NoFrame
    /\ levels = [support |-> <<>>, resistance |-> <<>>]
    /\ enabled_signals = [isNone |-> TRUE, list |-> <<>>]
    /\ cap = 10
    /\ show_confluence = TRUE
    /\ fault = "none"
    /\ enabled = <<>>
    /\ all_signals = <<>>
    /\ raised = "none"
    /\ result = <<>>
    /\ runs = <<>>

_cleanup_history(l, current_time) ==
    LET keep(h, window) ==
            ValuesAt(h, SelectIdx([i \in 1..Len(h) |-> current_time - h[i] < window],
                                  1, Len(h)))
    IN  [l EXCEPT !.minute_history = keep(@, 60 * Second),
                  !.second_history = keep(@, 1 * Second)]

\* a test that lets one call more through than the limits
CanProceedAtLimit(l) ==
    /\ ~(Len(l.minute_history) > l.calls_per_minute)
    /\ ~(Len(l.second_history) > l.calls_per_second)

_can_proceed(l) ==
    /\ ~(Len(l.minute_history) >= l.calls_per_minute)
    /\ ~(Len(l.second_history) >= l.calls_per_second)

_calculate_wait_time(l, current_time) ==
    LET oldest(h) == CHOOSE t \in {h[i] : i \in 1..Len(h)} :
                        \A i \in 1..Len(h) : t <= h[i]
        wait_times ==
            (IF Len(l.second_history) >= l.calls_per_second
             THEN {1 * Second - (current_time - oldest(l.second_history))} ELSE {})
            \cup (IF Len(l.minute_history) >= l.calls_per_minute
                  THEN {60 * Second - (current_time - oldest(l.minute_history))}
                  ELSE {})
    IN  IF wait_times = {} THEN 0
        ELSE CHOOSE w \in wait_times : \A v \in wait_times : v <= w

\* acquire of caller c, from one suspension to the next: the call itself
\* (which queues on a held lock), the hand-over of the lock, the return of
\* asyncio.sleep.  With the lock: current_time = time.time(), the cleanup,
\* the test of the while loop, and either the two appends and the release or
\* the next sleep.  A wait_time <= 0 in the loop leaves the loop spinning.
acquire(c) ==
    LET queue(l) == [l EXCEPT !.waiters = Append(@, c), !.pc[c] = "queued"]
        body(l0) ==
            LET current_time == l0.time
                l == _cleanup_history(l0, current_time)
                wait_time == _calculate_wait_time(l, current_time)
            IN  IF _can_proceed(l)
                THEN [l EXCEPT !.minute_history = Append(@, current_time),
                               !.second_history = Append(@, current_time),
                               !.granted = Append(@, current_time),
                               !.lock = 0, !.pc[c] = "done"]
                ELSE IF wait_time > 0
                THEN [l EXCEPT !.lock = c, !.pc[c] = "sleeping",
                               !.wake_at[c] = current_time + wait_time]
                ELSE [l EXCEPT !.lock = c, !.pc[c] = "spinning"]
    IN  /\ \/ /\ limiter.pc[c] = "idle"
              /\ limiter.time <= LastCall
              /\ limiter' = IF limiter.lock = 0 /\ limiter.waiters = <<>>
                            THEN body(limiter) ELSE queue(limiter)
           \/ /\ limiter.pc[c] = "queued"
              /\ limiter.lock = 0
              /\ Head(limiter.waiters) = c
              /\ limiter' = body([limiter EXCEPT !.waiters = Tail(@)])
           \/ /\ limiter.pc[c] = "sleeping"
              /\ limiter.time >= limiter.wake_at[c]
              /\ limiter' = body(limiter)
        /\ UNCHANGED <<df, levels, enabled_signals, cap, show_confluence, fault,
                       pc, enabled, all_signals, raised, result, feeds, results,
                       runs, scan>>

\* time.time() moves on by one tick; a timer that is due and a free lock
\* with a waiter are served first.  The clock stops when every caller has
\* been granted: with calls_per_minute >= 2 a call waits at most for the
\* grant two before it to leave the 60-second window.
Tick ==
    /\ limiter.time < LastCall + ((NumCallers - 1) \div 2) * 60 * Second
                               + NumCallers * Second
    /\ \A c \in 1..NumCallers :
          limiter.pc[c] = "sleeping" => limiter.time < limiter.wake_at[c]
    /\ ~(limiter.lock = 0 /\ limiter.waiters # <<>>)
    /\ limiter' = [limiter EXCEPT !.time = @ + 1]
    /\ UNCHANGED <<df, levels, enabled_signals, cap, show_confluence, fault,
                   pc, enabled, all_signals, raised, result, feeds, results,
                   runs, scan>>

NextLimiter == (\E c \in 1..NumCallers : acquire(c)) \/ Tick

\* the event loop runs every task that can run, and time passes
SpecLimiter ==
    /\ InitLimiter
    /\ [][NextLimiter]_vars
    /\ \A c \in 1..NumCallers : WF_vars(acquire(c))
    /\ WF_vars(Tick)

-----------------------------------------------------------------------------
(* The detectors called on their own, on series of every length up to MaxLen *)

DetectFrames ==
    {Frame(sh, t, n) : sh \in Shapes, t \in {"fakedown", "scenario", "gap"},
                       n \in 0..MaxLen}
    \cup {NoFrame}

\* the candles get_ohlcv returns by default, for a market that does not move
limit == 200

\* two series whose last candle shows several candlestick patterns at once
PatternFrames == {Frame("flat", t, MaxLen) : t \in {"engulf", "pinbar"}}

\* 50 candles whose lows fall and whose highs rise by one unit per candle,
\* except for lows 5 units deeper at the rows of dips and highs 5 units
\* higher at the rows of bumps; rsi is NaN for the first 14 rows
DivergenceFrame(dips, bumps) ==
    LET osc(i) == IF i = 25 THEN 70 ELSE IF i = 45 THEN 50 ELSE 30 + (i \div 2)
        row(i) == Candle(1050, 1100 + i + (IF i \in bumps THEN 5 ELSE 0),
                         1000 - i - (IF i \in dips THEN 5 ELSE 0), 1050, 100,
                         IF i <= 14 THEN NaN ELSE osc(i), osc(i) - 50)
    IN  [Frame("bull", "still", 50) EXCEPT !.rows = [i \in 1..50 |-> row(i)]]

\* 60 candles of one range, except for highs 10 units higher at the rows of
\* bumps and lows 10 units lower at the rows of dips: two dips before a bump,
\* two bumps before a dip, a bump before a dip
StructureFrames ==
    LET frame(bumps, dips) ==
            [Frame("flat", "still", 60) EXCEPT
                !.rows = [i \in 1..60 |->
                             Candle(1000, 1010 + (IF i \in bumps THEN 10 ELSE 0),
                                    990 - (IF i \in dips THEN 10 ELSE 0),
                                    1000, 100, 50, 0)]]
    IN  {frame({45}, {15, 30}), frame({15, 30}, {45}), frame({20}, {40})}

\* two lows and two highs; an earlier low inside the rsi warm-up; one low only
DivergenceFrames ==
    {DivergenceFrame({20, 40}, {25, 45}), DivergenceFrame({10, 40}, {}),
     DivergenceFrame({40}, {})}

\* a quiet series that ends in four candles with ranges of 2.5, 3.9, 3.0 and
\* exactly 2 percent
ImpulseFrame ==
    LET last4 == <<Candle(1000, 1025, 1000, 1025, 100, 50, 0),
                   Candle(1025, 1030, 990, 990, 100, 50, 0),
                   Candle(990, 1020, 990, 1020, 100, 50, 0),
                   Candle(1000, 1020, 1000, 1020, 100, 50, 0)>>
    IN  [Frame("flat", "still", MaxLen) EXCEPT
            !.rows = [i \in 1..MaxLen |->
                         IF i > MaxLen - 4 THEN last4[i - (MaxLen - 4)] ELSE @[i]]]

\* that series and its one level
FlatFrame == Frame("flat", "still", limit)
FlatLevels == [support |-> <<1000>>, resistance |-> <<>>]

\* the steps of add_technical_indicators in the order of the code, each with
\* the fields it assigns
IndicatorSteps ==
    <<[step |-> "sma_20", fields |-> {"sma_20"}],
      [step |-> "sma_50", fields |-> {"sma_50"}],
      [step |-> "sma_200", fields |-> {"sma_200"}],
      [step |-> "ema_9", fields |-> {"ema_9"}],
      [step |-> "ema_21", fields |-> {"ema_21"}],
      [step |-> "ema_55", fields |-> {"ema_55"}],
      [step |-> "calculate_rsi", fields |-> {"rsi"}],
      [step |-> "calculate_stochastic_rsi", fields |-> {"stoch_rsi_k", "stoch_rsi_d"}],
      [step |-> "calculate_macd",
       fields |-> {"macd", "macd_signal", "macd_histogram"}],
      [step |-> "calculate_bollinger_bands",
       fields |-> {"bb_upper", "bb_middle", "bb_lower"}],
      [step |-> "calculate_atr", fields |-> {"atr"}],
      [step |-> "volume_sma", fields |-> {"volume_sma"}],
      [step |-> "volume_ratio", fields |-> {"volume_ratio"}],
      [step |-> "calculate_obv", fields |-> {"obv"}],
      [step |-> "calculate_vwap", fields |-> {"vwap"}],
      [step |-> "calculate_stochastic", fields |-> {"stoch_k", "stoch_d"}],
      [step |-> "calculate_adx", fields |-> {"adx", "plus_di", "minus_di"}]>>

IndicatorStepNames == {IndicatorSteps[i].step : i \in 1..Len(IndicatorSteps)}

\* the steps before the one that raises: the except clause returns df as it is
\* at that point
StepsDone(failing) ==
    {i \in 1..Len(IndicatorSteps) :
        \A k \in 1..i : IndicatorSteps[k].step # failing}

\* the fields df gains; their values are not part of this model
add_technical_indicators(d, failing) ==
    IF d.isNone \/ Len(d.rows) < 20 THEN d
    ELSE [d EXCEPT !.columns =
             @ \cup UNION {IndicatorSteps[i].fields : i \in StepsDone(failing)}]

\* np.where(price_direction > 0, 1, np.where(price_direction < 0, -1, 0));
\* the first difference is NaN
volume_multiplier(rows, i) ==
    IF i = 1 THEN 0
    ELSE IF rows[i].close > rows[i - 1].close THEN 1
    ELSE IF rows[i].close < rows[i - 1].close THEN -1
    ELSE 0

\* (df['volume'] * volume_multiplier).cumsum(), then obv.iloc[0] = volume[0]
calculate_obv(rows) ==
    LET signed == [i \in 1..Len(rows) |-> rows[i].volume * volume_multiplier(rows, i)]
    IN  [i \in 1..Len(rows) |->
            IF i = 1 THEN rows[1].volume ELSE SumOf(signed, 1, i)]

\* the raw series add_technical_indicators is called on when a step may raise
RawFrames == {Frame("flat", "fakedown", n) : n \in {19, 20, MaxLen}}

\* pc = "call": one detector is about to be called on df;
\* pc = "start": analyze_symbol is about to be called on a series of about 20 rows
InitDetect ==
    /\ \/ /\ df \in DetectFrames \cup {ImpulseFrame} \cup PatternFrames \cup DivergenceFrames
                     \cup StructureFrames
          /\ levels \in LevelSets
          /\ Len(levels.support) = MaxLevels
       \/ /\ df = FlatFrame
          /\ levels = FlatLevels
    /\ enabled_signals \in EnabledLists
    /\ cap = 10
    /\ show_confluence = TRUE
    /\ fault \in IndicatorStepNames \cup {"none"}
    /\ fault # "none" => df \in RawFrames
    /\ pc \in {"start", "call"}
    /\ pc = "start" => fault = "none" /\ (Len(df.rows) <= 22
                                         \/ df \in {FlatFrame, ImpulseFrame} \cup PatternFrames
                                                   \cup DivergenceFrames \cup StructureFrames)
    /\ pc = "call" => ~df.isNone /\ enabled_signals.isNone
    /\ enabled = <<>>
    /\ all_signals = <<>>
    /\ raised = "none"
    /\ result = <<>>
    /\ feeds = <<>>
    /\ results = <<>>
    /\ runs = <<>>
    /\ scan = <<>>
    /\ limiter = <<>>

\* the call name(df) with the default arguments, returning found
Call(name, found) ==
    /\ pc = "call"
    /\ pc' = name
    /\ result' = found
    /\ UNCHANGED <<df, levels, enabled_signals, cap, show_confluence, fault,
                   feeds, results, enabled, all_signals, raised, runs,
                   scan, limiter>>

FindTriangles == Call("find_triangles", find_triangles(df.rows, 50))
FindHeadAndShoulders ==
    Call("find_head_and_shoulders", find_head_and_shoulders(df.rows, 100))
FindFlagsAndPennants ==
    Call("find_flags_and_pennants", find_flags_and_pennants(df.rows))
FindDoubleTopBottom ==
    Call("find_double_top_bottom", find_double_top_bottom(df.rows, 50))
DetectCandlestickPatterns ==
    Call("detect_candlestick_patterns", detect_candlestick_patterns(df.rows))
FindRsiDivergence == Call("find_rsi_divergence", find_rsi_divergence(df, 50))
FindMacdDivergence == Call("find_macd_divergence", find_macd_divergence(df, 50))
FindFairValueGaps ==
    Call("find_fair_value_gaps", find_fair_value_gaps(df.rows, FVG_MIN_SIZE_x10))
FindOrderBlocks ==
    Call("find_order_blocks", find_order_blocks(df.rows, ORDER_BLOCK_LOOKBACK))
\* df['sma_20'] = ...: the fields are assigned on the caller's frame, which is
\* also the value returned
AddTechnicalIndicators ==
    /\ pc = "call"
    /\ pc' = "add_technical_indicators"
    /\ df' = add_technical_indicators(df, fault)
    /\ result' = df'
    /\ UNCHANGED <<levels, enabled_signals, cap, show_confluence, fault,
                   feeds, results, enabled, all_signals, raised, runs,
                   scan, limiter>>

\* on an empty series obv.iloc[0] raises IndexError
CalculateObv ==
    /\ pc = "call"
    /\ pc' = "calculate_obv"
    /\ IF Len(df.rows) = 0
       THEN raised' = "IndexError" /\ UNCHANGED result
       ELSE result' = calculate_obv(df.rows) /\ UNCHANGED raised
    /\ UNCHANGED <<df, levels, enabled_signals, cap, show_confluence, fault,
                   feeds, results, enabled, all_signals, runs,
                   scan, limiter>>

NextDetect ==
    \/ Next
    \/ FindTriangles
    \/ FindHeadAndShoulders
    \/ FindFlagsAndPennants
    \/ FindDoubleTopBottom
    \/ DetectCandlestickPatterns
    \/ FindRsiDivergence
    \/ FindMacdDivergence
    \/ FindFairValueGaps
    \/ FindOrderBlocks
    \/ AddTechnicalIndicators
    \/ CalculateObv

SpecDetect == InitDetect /\ [][NextDetect]_vars

-----------------------------------------------------------------------------
(* MTFAnalyzer: the same symbol on several timeframes.                     *)
(* A feed is what get_ohlcv gives for one timeframe, reduced to what       *)
(* _analyze_timeframe reads after add_technical_indicators: the last row   *)
(* and the close ten rows back.  Scores are kept in hundredths.            *)

\* self.timeframes
timeframes == <<"15m", "1h", "4h", "1d">>

Feed(data, n, close, past, ema_21, ema_55, rsi, macd, macd_signal) ==
    [data |-> data, len |-> n, close |-> close, past_close |-> past,
     ema_21 |-> ema_21, ema_55 |-> ema_55, sma_20 |-> ema_21, sma_50 |-> ema_55,
     rsi |-> rsi, macd |-> macd, macd_signal |-> macd_signal,
     volume |-> 100, volume_mean |-> 90]

FeedKinds ==
    {Feed("none", 0, 0, 0, 0, 0, 0, 0, 0),
     Feed("raises", 0, 0, 0, 0, 0, 0, 0, 0),
     Feed("ok", 49, 1030, 1000, 1010, 1000, 75, 2, 1),
     Feed("ok", 200, 1030, 1000, 1010, 1000, 75, 2, 1),
     Feed("ok", 200, 1012, 1010, 1010, 1000, 55, -1, 0),
     Feed("ok", 50, 970, 1000, 990, 1000, 25, -2, -1),
     Feed("ok", 200, 1000, 1008, 1010, 1000, NaN, -1, 0)}

None == [isNone |-> TRUE]

\* if df is None or len(df) < 20
BelowTwentyCandles(feed) == feed.data = "none" \/ feed.len < 20

\* if df is None or len(df) < 50
TooFewCandles(feed) == feed.data = "none" \/ feed.len < 50

_determine_trend(last) ==
    IF last.ema_21 = NaN \/ last.ema_55 = NaN THEN "neutral"
    ELSE IF Gt(last.close, last.ema_21) /\ Gt(last.ema_21, last.ema_55)
    THEN "uptrend"
    ELSE IF Lt(last.close, last.ema_21) /\ Lt(last.ema_21, last.ema_55)
    THEN "downtrend"
    ELSE "sideways"

_get_rsi_state(rsi) ==
    IF rsi = NaN THEN "neutral"
    ELSE IF rsi < 30 THEN "oversold"
    ELSE IF rsi > 70 THEN "overbought"
    ELSE IF rsi < 40 THEN "weak"
    ELSE IF rsi > 60 THEN "strong"
    ELSE "neutral"

_get_ma_position(candle) ==
    IF candle.sma_20 = NaN \/ candle.sma_50 = NaN THEN "neutral"
    ELSE IF Gt(candle.close, candle.sma_20) /\ Gt(candle.sma_20, candle.sma_50)
    THEN "above_all"
    ELSE IF Lt(candle.close, candle.sma_20) /\ Lt(candle.sma_20, candle.sma_50)
    THEN "below_all"
    ELSE "mixed"

\* change = (current_price - past_price) / past_price * 100 against 2 and 0.5
_calculate_momentum(current_price, past_price) ==
    LET diff == current_price - past_price
    IN  IF 100 * diff > 2 * past_price THEN "strong_bullish"
        ELSE IF 200 * diff > past_price THEN "bullish"
        ELSE IF 100 * diff < -2 * past_price THEN "strong_bearish"
        ELSE IF 200 * diff < -past_price THEN "bearish"
        ELSE "neutral"

\* the dict of one timeframe, or None when the timeframe is left out
_analyze_timeframe(feed) ==
    IF feed.data = "raises" THEN None
    ELSE IF TooFewCandles(feed) THEN None
    ELSE [isNone |-> FALSE,
          trend |-> _determine_trend(feed),
          rsi |-> IF feed.rsi = NaN THEN None ELSE [isNone |-> FALSE, value |-> feed.rsi],
          rsi_state |-> _get_rsi_state(feed.rsi),
          macd_state |-> IF Gt(feed.macd, feed.macd_signal) THEN "bullish"
                         ELSE "bearish",
          ma_position |-> _get_ma_position(feed),
          momentum |-> _calculate_momentum(feed.close, feed.past_close),
          price |-> feed.close,
          volume_trend |-> IF Gt(feed.volume, feed.volume_mean) THEN "increasing"
                           ELSE "decreasing"]

\* trends.count(t)
TrendCount(tfs, t) ==
    Cardinality({i \in 1..Len(tfs) : tfs[i].data.trend = t})

\* an agreement that looks at rising timeframes only
UptrendAlignment(tfs) == TrendCount(tfs, "uptrend")

\* max(uptrend_count, downtrend_count)
max_alignment(tfs) == Max(TrendCount(tfs, "uptrend"), TrendCount(tfs, "downtrend"))

\* round(max_alignment / total * 100, 2), in hundredths
_calculate_alignment_score(tfs) ==
    IF tfs = <<>> THEN 0
    ELSE RoundHalfEven(10000 * max_alignment(tfs), Len(tfs))

\* a vote that ignores the strong momentum states
MomentumVotePlain(tf_data, side) ==
    IF tf_data.momentum = side THEN 1 ELSE 0

\* tf_data.get('momentum') in [side, 'strong_' + side]
MomentumVote(tf_data, side) ==
    IF tf_data.momentum \in {side, "strong_" \o side} THEN 1 ELSE 0

\* bullish_signals (side "bullish") or bearish_signals (side "bearish")
Votes(tfs, side) ==
    LET trend == IF side = "bullish" THEN "uptrend" ELSE "downtrend"
    IN  SumOf([i \in 1..Len(tfs) |->
                  (IF tfs[i].data.trend = trend THEN 2 ELSE 0)
                  + (IF tfs[i].data.macd_state = side THEN 1 ELSE 0)
                  + MomentumVote(tfs[i].data, side)], 1, Len(tfs))

\* alignment_score in hundredths; x > y * 1.5 is 2 * x > 3 * y
_get_recommendation(tfs, alignment_score) ==
    LET bullish_signals == Votes(tfs, "bullish")
        bearish_signals == Votes(tfs, "bearish")
    IN  IF tfs = <<>> THEN "neutral"
        ELSE IF 2 * bullish_signals > 3 * bearish_signals /\ alignment_score > 6000
        THEN "strong_buy"
        ELSE IF bullish_signals > bearish_signals THEN "buy"
        ELSE IF 2 * bearish_signals > 3 * bullish_signals /\ alignment_score > 6000
        THEN "strong_sell"
        ELSE IF bearish_signals > bullish_signals THEN "sell"
        ELSE "neutral"

\* a bonus measured against the configured timeframes
StrongMomentumOfConfigured(tfs) ==
    [num |-> Cardinality({i \in 1..Len(tfs) :
                 tfs[i].data.momentum \in {"strong_bullish", "strong_bearish"}}),
     den |-> Len(timeframes)]

\* strong_momentum_count / tf_count
StrongMomentumShare(tfs) ==
    [num |-> Cardinality({i \in 1..Len(tfs) :
                 tfs[i].data.momentum \in {"strong_bullish", "strong_bearish"}}),
     den |-> Len(tfs)]

\* min(round(alignment_score * 0.6 + tf_count / 4 * 20 + share * 20, 2), 100),
\* in hundredths
_calculate_confidence(tfs, alignment_score) ==
    IF tfs = <<>> THEN 0
    ELSE LET tf_count == Len(tfs)
             share == StrongMomentumShare(tfs)
             den == 10 * Len(timeframes) * share.den
             num == 6 * alignment_score * Len(timeframes) * share.den
                    + 20000 * tf_count * share.den
                    + 20000 * share.num * Len(timeframes)
         IN  Min(RoundHalfEven(num, den), 10000)

NoResults ==
    [timeframes |-> <<>>, alignment_score |-> 0, recommendation |-> "neutral",
     confidence |-> 0]

InitMTF ==
    /\ feeds \in [1..Len(timeframes) -> FeedKinds]
    /\ results = NoResults
    /\ pc = timeframes[1]
    /\ df = NoFrame
    /\ levels = [support |-> <<>>, resistance |-> <<>>]
    /\ enabled_signals = [isNone |-> TRUE, list |-> <<>>]
    /\ cap = 10
    /\ show_confluence = TRUE
    /\ fault = "none"
    /\ enabled = <<>>
    /\ all_signals = <<>>
    /\ raised = "none"
    /\ result = <<>>
    /\ runs = <<>>
    /\ scan = <<>>
    /\ limiter = <<>>

\* one pass of "for tf in self.timeframes"
AnalyzeTimeframe ==
    /\ InList(pc, timeframes)
    /\ LET i == CHOOSE k \in 1..Len(timeframes) : timeframes[k] = pc
           tf_analysis == _analyze_timeframe(feeds[i])
       IN  /\ results' = IF tf_analysis.isNone THEN results
                         ELSE [results EXCEPT !.timeframes =
                                  Append(@, [tf |-> pc, data |-> tf_analysis])]
           /\ pc' = IF i = Len(timeframes) THEN "scores" ELSE timeframes[i + 1]
    /\ UNCHANGED <<df, levels, enabled_signals, cap, show_confluence, fault,
                   feeds, enabled, all_signals, raised, result, runs,
                   scan, limiter>>

\* if not results['timeframes']: return results
ReturnUnscored ==
    /\ pc = "scores"
    /\ results.timeframes = <<>>
    /\ pc' = "returned"
    /\ UNCHANGED <<df, levels, enabled_signals, cap, show_confluence, fault,
                   feeds, results, enabled, all_signals, raised, result, runs,
                   scan, limiter>>

\* alignment_score, recommendation and confidence, then return results
Scores ==
    /\ pc = "scores"
    /\ results.timeframes # <<>>
    /\ LET alignment_score == _calculate_alignment_score(results.timeframes)
       IN  results' =
              [results EXCEPT
                 !.alignment_score = alignment_score,
                 !.recommendation =
                     _get_recommendation(results.timeframes, alignment_score),
                 !.confidence =
                     _calculate_confidence(results.timeframes, alignment_score)]
    /\ pc' = "returned"
    /\ UNCHANGED <<df, levels, enabled_signals, cap, show_confluence, fault,
                   feeds, enabled, all_signals, raised, result, runs,
                   scan, limiter>>

NextMTF ==
    \/ AnalyzeTimeframe
    \/ ReturnUnscored
    \/ Scores

SpecMTF == InitMTF /\ [][NextMTF]_vars

-----------------------------------------------------------------------------
(* Properties of the returned batch *)

IsConfluence(s) == s.type = "confluence"

\* the positions of the confluence signals of a batch
ConfluencePositions(batch) == {i \in 1..Len(batch) : IsConfluence(batch[i])}

\* the distinct types of the non-confluence signals of direction dir in a batch
DirectedTypes(batch, dir) ==
    {batch[i].type : i \in {k \in 1..Len(batch) :
                              ~IsConfluence(batch[k]) /\ batch[k].direction = dir}}

\* C1: for a non-negative cap MAX_SIGNALS_PER_COIN the returned batch holds at
\* most that many signals, confluence signals counted
C1_BatchWithinCap ==
    (pc = "done" /\ cap >= 0) => Len(result) <= cap

\* the cap cut a selection that held more signals, a confluence among them
C1_CapCuts ==
    /\ pc = "done"
    /\ cap > 0
    /\ Len(all_signals) > cap
    /\ Len(result) = cap
    /\ ConfluencePositions(all_signals) # {}

\* C2: a confluence signal of direction D is in the returned batch only if the
\* same batch holds non-confluence signals of at least 3 distinct types with
\* direction D
C2_ConfluenceNeedsThreeTypes ==
    pc = "done" =>
        \A i \in ConfluencePositions(result) :
            Cardinality(DirectedTypes(result, result[i].direction)) >= 3

\* a returned batch with a bearish confluence signal
C2_ConfluenceReturned ==
    /\ pc = "done"
    /\ \E i \in ConfluencePositions(result) : result[i].direction = "bearish"

\* the shape of the confluence signals of a returned batch: one per direction
\* at most, bullish or bearish, critical, listing the directed types
C3_ConfluenceShape ==
    pc = "done" =>
        \A i \in ConfluencePositions(result) :
            /\ result[i].direction \in {"bullish", "bearish"}
            /\ result[i].priority = "critical"
            /\ result[i].details.signal_types
                  = DirectedTypes(result, result[i].direction)
            /\ \A j \in ConfluencePositions(result) :
                  result[j].direction = result[i].direction => j = i

\* the synthesis step only appends confluence signals to the selection
C3_SynthesisAppends ==
    pc = "confluence" =>
        /\ Len(all_signals') >= Len(all_signals)
        /\ SubSeq(all_signals', 1, Len(all_signals)) = all_signals
        /\ \A j \in (Len(all_signals) + 1)..Len(all_signals') :
              IsConfluence(all_signals'[j])
        /\ ConfluencePositions(all_signals) = {}

\* C3: a batch holds at most one confluence signal per direction (bullish or
\* bearish, never neutral), each of priority critical and listing exactly the
\* types of the selected non-confluence signals of its direction; synthesizing
\* it adds, removes and changes no non-confluence signal
C3_Confluence == []C3_ConfluenceShape /\ [][C3_SynthesisAppends]_vars

\* a returned batch with a bullish and a bearish confluence signal
C3_BothDirections ==
    /\ pc = "done"
    /\ \E i, j \in ConfluencePositions(result) :
          result[i].direction = "bullish" /\ result[j].direction = "bearish"

\* the signals of one type in a batch, in order
OfType(batch, t) ==
    ValuesAt(batch, SelectIdx([i \in 1..Len(batch) |-> batch[i].type = t],
                              1, Len(batch)))

\* C4: when the detector of one enabled category raises, that category
\* contributes no signal and every other enabled category, earlier or later,
\* contributes exactly the signals it contributes without the failure
C4_FailureStaysLocal ==
    (pc = "done" /\ raised # "none") =>
        \A c \in Detectors :
            InList(c, enabled) =>
                OfType(all_signals, c) = IF c = raised THEN <<>>
                                         ELSE Selected(c, df, levels)

\* C5: every non-confluence signal of every returned batch carries the
\* annotations trend and strength_index
C5_AllAnnotated ==
    pc = "done" =>
        \A i \in 1..Len(result) :
            IsConfluence(result[i]) \/
            {"trend", "strength_index"} \subseteq DOMAIN result[i]

FixedOrder ==
    <<"structure_break", "level_approach", "breakout", "false_breakout",
      "imbalance", "order_block", "liquidity_sweep", "divergence", "pattern",
      "volume_spike", "confluence">>

RankOf(t) == CHOOSE k \in 1..Len(FixedOrder) : FixedOrder[k] = t

\* C7: the returned batch follows the fixed category order whatever the order
\* of the enabled list; it is a prefix of the selection, so that the confluence
\* signals come last and the cap removes them before any other signal
C7_FixedCategoryOrder ==
    pc = "done" =>
        /\ \A i, j \in 1..Len(result) :
              i < j => RankOf(result[i].type) <= RankOf(result[j].type)
        /\ Len(result) <= Len(all_signals)
        /\ result = SubSeq(all_signals, 1, Len(result))
        /\ (\E i \in (Len(result) + 1)..Len(all_signals) : ~IsConfluence(all_signals[i]))
              => ConfluencePositions(result) = {}

\* the enabled list names confluence first and structure_break last, the batch
\* starts with structure_break, and the cap removed the confluence signals
C7_ReversedListCapped ==
    /\ pc = "done"
    /\ ~enabled_signals.isNone
    /\ Len(enabled_signals.list) > 1
    /\ enabled_signals.list[1] = "confluence"
    /\ enabled_signals.list[Len(enabled_signals.list)] = "structure_break"
    /\ Len(result) > 1
    /\ result[1].type = "structure_break"
    /\ result[Len(result)].type # "structure_break"
    /\ ConfluencePositions(all_signals) # {}
    /\ ConfluencePositions(result) = {}

CategoryCaps ==
    [structure_break |-> 2, level_approach |-> 3, breakout |-> 2,
     false_breakout |-> 2, imbalance |-> 3, order_block |-> 2,
     liquidity_sweep |-> 2, divergence |-> 2, pattern |-> 3, volume_spike |-> 1]

\* C8: before the cap, the selection never holds more signals of a category
\* than 2 structure_break, 3 level_approach, 2 breakout, 2 false_breakout,
\* 3 imbalance, 2 order_block, 2 liquidity_sweep, 2 divergence, 3 pattern,
\* 1 volume_spike
C8_PerCategoryCaps ==
    \A t \in DOMAIN CategoryCaps : Len(OfType(all_signals, t)) <= CategoryCaps[t]

\* more levels are near than the block keeps, and several categories are at
\* their cap in one selection
C8_CapsReached ==
    /\ pc = "return"
    /\ Len(_check_level_approach(df.rows, levels, CurrentPrice(df.rows))) > 3
    /\ Len(OfType(all_signals, "level_approach")) = 3
    /\ Len(OfType(all_signals, "imbalance")) = 3
    /\ Len(OfType(all_signals, "order_block")) = 2
    /\ Len(OfType(all_signals, "pattern")) = 3

-----------------------------------------------------------------------------
(* Properties of the level based categories *)

LastClose == df.rows[Len(df.rows)].close
PrevClose == df.rows[Len(df.rows) - 1].close

\* the current volume exceeds 1.5 times the mean volume of the last 20 candles
VolumeAboveAverage ==
    LET n == Len(df.rows)
    IN  40 * df.rows[n].volume > 3 * SumOf(Col(df.rows, "volume"), n - 19, n)

FirstOf(s, k) == SubSeq(s, 1, IF Len(s) < k THEN Len(s) ELSE k)

BreakoutBlockDone ==
    /\ InList("breakout", enabled)
    /\ pc \notin {"start", "structure_break", "level_approach", "breakout"}

ScenarioLevels == [support |-> <<1000>>, resistance |-> <<1100>>]

\* C9: with breakout enabled, a bullish breakout is selected for each of the
\* first 2 resistances R with previous close < R < current close, a bearish one
\* for each of the first 2 supports S with previous close > S > current close,
\* and no other; volume_confirmed is true exactly when the current volume
\* exceeds 1.5 times the mean of the last 20 volumes, the priority is high when
\* it is true and medium otherwise.  Support [100], resistance [110], closes
\* 108 then 111 with confirming volume give one high bullish breakout.
C9_BreakoutSemantics ==
    BreakoutBlockDone =>
        LET b == OfType(all_signals, "breakout")
            R == FirstOf(levels.resistance, 2)
            S == FirstOf(levels.support, 2)
            up == {k \in 1..Len(R) : PrevClose < R[k] /\ R[k] < LastClose}
            down == {k \in 1..Len(S) : PrevClose > S[k] /\ S[k] > LastClose}
            bull == {i \in 1..Len(b) : b[i].direction = "bullish"}
            bear == {i \in 1..Len(b) : b[i].direction = "bearish"}
        IN  /\ bull \cup bear = 1..Len(b)
            /\ Cardinality(bull) = Cardinality(up)
            /\ {b[i].details.broken_level : i \in bull} = {R[k] : k \in up}
            /\ Cardinality(bear) = Cardinality(down)
            /\ {b[i].details.broken_level : i \in bear} = {S[k] : k \in down}
            /\ \A i \in 1..Len(b) :
                  /\ b[i].details.volume_confirmed = VolumeAboveAverage
                  /\ b[i].priority = IF VolumeAboveAverage THEN "high" ELSE "medium"
            /\ (levels = ScenarioLevels /\ PrevClose = 1080 /\ LastClose = 1110
                /\ VolumeAboveAverage)
                  => /\ Len(b) = 1
                     /\ b[1].direction = "bullish"
                     /\ b[1].priority = "high"

\* the scenario: one confirmed bullish breakout of the resistance 110
C9_Scenario ==
    /\ BreakoutBlockDone
    /\ levels = ScenarioLevels
    /\ PrevClose = 1080
    /\ LastClose = 1110
    /\ LET b == OfType(all_signals, "breakout")
       IN  /\ Len(b) = 1
           /\ b[1].direction = "bullish"
           /\ b[1].priority = "high"
           /\ b[1].details.volume_confirmed
           /\ b[1].details.broken_level = 1100

ApproachBlockDone ==
    /\ InList("level_approach", enabled)
    /\ pc \notin {"start", "structure_break", "level_approach"}

\* |close - level| / close < 1.5 percent
WithinApproach(l) ==
    LET d == IF LastClose > l THEN LastClose - l ELSE l - LastClose
    IN  1000 * d < 15 * LastClose

\* the level_approach signals due per side: the near ones among the first 3
\* supports (bullish), then among the first 3 resistances (bearish)
ApproachDue ==
    LET side(s, dir, kind) ==
            LET f == FirstOf(s, 3)
                idx == SelectIdx([i \in 1..Len(f) |-> WithinApproach(f[i])], 1, Len(f))
            IN  [k \in 1..Len(idx) |-> <<dir, "high", kind, f[idx[k]]>>]
    IN  side(levels.support, "bullish", "support")
        \o side(levels.resistance, "bearish", "resistance")

\* the level_approach signals of the selection
ApproachSelected ==
    LET a == OfType(all_signals, "level_approach")
    IN  [i \in 1..Len(a) |-> <<a[i].direction, a[i].priority,
                               a[i].details.level_type, a[i].details.level_price>>]

\* C10 as stated: the selection holds a signal for every near level among the
\* first 3 supports and the first 3 resistances, up to 3 per side
C10_ThreePerSide ==
    ApproachBlockDone => ApproachSelected = ApproachDue

\* C10: with level_approach enabled the selection holds the first 3, supports
\* before resistances, of the high-priority signals due for the near levels
\* among the first 3 supports (bullish) and the first 3 resistances (bearish):
\* up to 3 signals in all
C10_ThreeInAll ==
    ApproachBlockDone => ApproachSelected = FirstOf(ApproachDue, 3)

\* three near supports fill the selection, a near resistance is left out
C10_ResistanceLeftOut ==
    /\ ApproachBlockDone
    /\ Len(ApproachDue) > 3
    /\ Len(ApproachSelected) = 3
    /\ \A i \in 1..3 : ApproachSelected[i][1] = "bullish"
    /\ \E i \in 1..Len(ApproachDue) : ApproachDue[i][1] = "bearish"

-----------------------------------------------------------------------------
(* Properties of the minimum lengths *)

MinLength ==
    [find_triangles |-> 50, find_head_and_shoulders |-> 100,
     find_flags_and_pennants |-> 30, find_double_top_bottom |-> 50,
     detect_candlestick_patterns |-> 3, find_rsi_divergence |-> 50,
     find_macd_divergence |-> 50, find_fair_value_gaps |-> 3,
     find_order_blocks |-> ORDER_BLOCK_LOOKBACK + 2]

\* C6: analyze_symbol returns the empty batch, entering no except clause, when
\* the series is absent or shorter than 20 candles; each detector returns the
\* empty list on a series shorter than its minimum length (triangles 50,
\* head-and-shoulders 100, flags 30, double top/bottom 50, candlestick 3,
\* RSI and MACD divergence 50, fair-value gaps 3, order blocks lookback + 2)
C6_ShortSeriesGiveNothing ==
    /\ (pc \in DOMAIN MinLength /\ Len(df.rows) < MinLength[pc]) => result = <<>>
    /\ (pc = "done" /\ (df.isNone \/ Len(df.rows) < 20))
          => result = <<>> /\ raised = "none" /\ all_signals = <<>>

\* find_order_blocks was called on 21 candles, one short of its minimum, the
\* last of them a rising candle with a range above 2 percent, and found nothing
C6_OneCandleShort ==
    /\ pc = "find_order_blocks"
    /\ Len(df.rows) = ORDER_BLOCK_LOOKBACK + 1
    /\ LET last == df.rows[Len(df.rows)]
       IN  last.close > last.open /\ 100 * (last.high - last.low) > 2 * last.low
    /\ result = <<>>

-----------------------------------------------------------------------------
(* Properties of the false breakout category *)

FalseBreakoutBlockDone ==
    /\ InList("false_breakout", enabled)
    /\ pc \notin {"start", "structure_break", "level_approach", "breakout",
                  "false_breakout"}

\* the rows of the last 5 candles
LastFive == {i \in 1..Len(df.rows) : i > Len(df.rows) - 5}

\* C11: with false_breakout enabled, a high-priority bearish false_breakout is
\* selected for each of the first 2 resistances R whenever a high among the
\* last 5 candles is above R and the current close is below R; a bullish one
\* for each of the first 2 supports S whenever a low among the last 5 candles
\* is below S and the current close is above S
C11_WickAndCloseBack ==
    FalseBreakoutBlockDone =>
        LET f == OfType(all_signals, "false_breakout")
            R == FirstOf(levels.resistance, 2)
            S == FirstOf(levels.support, 2)
        IN  /\ \A k \in 1..Len(R) :
                  ((\E i \in LastFive : df.rows[i].high > R[k]) /\ LastClose < R[k])
                  => \E j \in 1..Len(f) : /\ f[j].direction = "bearish"
                                          /\ f[j].priority = "high"
                                          /\ f[j].details.failed_level = R[k]
            /\ \A k \in 1..Len(S) :
                  ((\E i \in LastFive : df.rows[i].low < S[k]) /\ LastClose > S[k])
                  => \E j \in 1..Len(f) : /\ f[j].direction = "bullish"
                                          /\ f[j].priority = "high"
                                          /\ f[j].details.failed_level = S[k]

-----------------------------------------------------------------------------
(* Properties of the volume spike category *)

VolumeSpikeBlockDone ==
    /\ InList("volume_spike", enabled)
    /\ pc \in {"annotate", "confluence", "return", "done"}

\* the current volume exceeds 2 times the mean volume of the last 20 candles
VolumeAboveTwiceAverage ==
    LET n == Len(df.rows)
    IN  20 * df.rows[n].volume > 2 * SumOf(Col(df.rows, "volume"), n - 19, n)

\* C12: with volume_spike enabled, the selection holds exactly one volume_spike
\* signal (neutral, medium) when the current volume exceeds 2 times the
\* trailing 20-candle average, and none otherwise; the run goes on unaffected
C12_OneVolumeSpike ==
    VolumeSpikeBlockDone =>
        LET v == OfType(all_signals, "volume_spike")
        IN  /\ raised = "none"
            /\ IF VolumeAboveTwiceAverage
               THEN /\ Len(v) = 1
                    /\ v[1].direction = "neutral"
                    /\ v[1].priority = "medium"
               ELSE v = <<>>

-----------------------------------------------------------------------------
(* Properties of find_fair_value_gaps *)

\* (b - a) / a * 100 >= FVG_MIN_SIZE, the default min_gap_size
GapLargeEnough(a, b) == 1000 * (b - a) >= FVG_MIN_SIZE_x10 * a

\* the size of a record equals (b - a) / a * 100
SizeIs(rec, a, b) == rec.size.num * a = 100 * (b - a) * rec.size.den

\* C13: for each index i >= 2 find_fair_value_gaps returns exactly one bullish
\* record when high[i-2] < low[i] and the gap is at least min_gap_size percent
\* of high[i-2], exactly one bearish record when low[i-2] > high[i] and the gap
\* is at least min_gap_size percent of high[i], and no record otherwise; size
\* is that percentage and filled is false.  high[i-2] = 100 and low[i] = 103.5
\* give a bullish record of size 3.5.
C13_FairValueGaps ==
    pc = "find_fair_value_gaps" =>
        LET rows == df.rows
            at(p) == {k \in 1..Len(result) : result[k].timestamp = p}
            bull(p) == /\ rows[p - 2].high < rows[p].low
                       /\ GapLargeEnough(rows[p - 2].high, rows[p].low)
            bear(p) == /\ rows[p - 2].low > rows[p].high
                       /\ GapLargeEnough(rows[p].high, rows[p - 2].low)
        IN  /\ \A k \in 1..Len(result) : result[k].timestamp \in 3..Len(rows)
            /\ \A p \in 3..Len(rows) :
                  /\ Cardinality(at(p)) = IF bull(p) \/ bear(p) THEN 1 ELSE 0
                  /\ \A k \in at(p) :
                        /\ ~result[k].filled
                        /\ bull(p) => /\ result[k].type = "bullish"
                                      /\ SizeIs(result[k], rows[p - 2].high, rows[p].low)
                        /\ bear(p) => /\ result[k].type = "bearish"
                                      /\ SizeIs(result[k], rows[p].high, rows[p - 2].low)
                        /\ (rows[p - 2].high = 1000 /\ rows[p].low = 1035)
                              => 10 * result[k].size.num = 35 * result[k].size.den

\* a series whose only gap is the one between a high of 100 and a low of 103.5
\* gave one bullish record of size 3.5
C13_SingleGap ==
    /\ pc = "find_fair_value_gaps"
    /\ Len(df.rows) > 20
    /\ df.rows[Len(df.rows) - 2].high = 1000
    /\ df.rows[Len(df.rows)].low = 1035
    /\ Len(result) = 1
    /\ result[1].type = "bullish"
    /\ result[1].timestamp = Len(df.rows)
    /\ 10 * result[1].size.num = 35 * result[1].size.den
    /\ ~result[1].filled

-----------------------------------------------------------------------------
(* Properties of analyze_symbol on a market that does not move *)

\* every candle of the series has open = high = low = close = P and the same
\* volume, and the support levels are [P]
Motionless ==
    /\ Len(df.rows) = 200
    /\ levels.support = <<df.rows[1].close>>
    /\ \A i \in 1..Len(df.rows) :
          /\ df.rows[i].open = df.rows[1].close
          /\ df.rows[i].high = df.rows[1].close
          /\ df.rows[i].low = df.rows[1].close
          /\ df.rows[i].close = df.rows[1].close
          /\ df.rows[i].volume = df.rows[1].volume

\* C14: for 200 candles with open = high = low = close = P, constant volume
\* and support levels [P], the batch returned by analyze_symbol contains no
\* breakout, no order_block and no imbalance signal.
C14_MotionlessMarket ==
    (pc = "done" /\ Motionless) =>
        \A i \in 1..Len(result) :
            result[i].type \notin {"breakout", "order_block", "imbalance"}

\* the three categories were enabled and evaluated on the motionless series,
\* and the call returned a batch (the approach to the level P) without them
C14_MotionlessBatch ==
    /\ pc = "done"
    /\ Motionless
    /\ raised = "none"
    /\ InList("breakout", enabled)
    /\ InList("order_block", enabled)
    /\ InList("imbalance", enabled)
    /\ Len(result) > 0
    /\ \A i \in 1..Len(result) :
          result[i].type \notin {"breakout", "order_block", "imbalance"}

-----------------------------------------------------------------------------
(* Properties of the multi-timeframe scores.  Scores are in hundredths:    *)
(* 10000 is 100, 6000 is 60.                                               *)

Evaluated == results.timeframes

WithTrend(t) == {i \in 1..Len(Evaluated) : Evaluated[i].data.trend = t}

\* the larger of the number of rising and the number of falling timeframes
MajorityCount ==
    IF Cardinality(WithTrend("uptrend")) >= Cardinality(WithTrend("downtrend"))
    THEN Cardinality(WithTrend("uptrend"))
    ELSE Cardinality(WithTrend("downtrend"))

\* the bounds and the end points of the alignment score
AlignmentRange ==
    /\ results.alignment_score \in 0..10000
    /\ MajorityCount = 0 => results.alignment_score = 0
    /\ results.alignment_score = 10000
          <=> (Evaluated # <<>> /\ MajorityCount = Len(Evaluated))

\* C15 as stated: the alignment score equals max(number of evaluated
\* timeframes in an uptrend, number in a downtrend) divided by the number of
\* evaluated timeframes, times 100; it lies in [0, 100], is 0 when no
\* timeframe is in an uptrend or downtrend and 100 exactly when all share the
\* same up or down trend.
C15_ExactQuotient ==
    pc = "returned" =>
        /\ results.alignment_score * Len(Evaluated) = 10000 * MajorityCount
        /\ AlignmentRange

\* C15, amended: the alignment score is that quotient rounded to two decimals
\* (the nearest hundredth), with the same bounds and end points.
C15_RoundedQuotient ==
    pc = "returned" =>
        /\ 2 * Abs(results.alignment_score * Len(Evaluated) - 10000 * MajorityCount)
              <= Len(Evaluated)
        /\ AlignmentRange

\* two of three evaluated timeframes agree: the score is 66.67
C15_TwoOfThree ==
    /\ pc = "returned"
    /\ Len(Evaluated) = 3
    /\ MajorityCount = 2
    /\ results.alignment_score = 6667

\* trend 2, MACD state 1, momentum (strong or not) 1, summed over the
\* evaluated timeframes
VoteTotal(trend, side) ==
    2 * Cardinality(WithTrend(trend))
    + Cardinality({i \in 1..Len(Evaluated) : Evaluated[i].data.macd_state = side})
    + Cardinality({i \in 1..Len(Evaluated) :
                      Evaluated[i].data.momentum \in {side, "strong_" \o side}})

BullishTotal == VoteTotal("uptrend", "bullish")
BearishTotal == VoteTotal("downtrend", "bearish")

\* C16 as stated: the recommendation is strong_buy whenever the bullish total
\* exceeds the bearish total and the alignment score is above 60, buy when the
\* bullish total is larger and alignment is at most 60, symmetrically
\* strong_sell / sell, and neutral exactly when the totals are equal.
C16_SimpleMajority ==
    pc = "returned" =>
        results.recommendation =
            IF BullishTotal > BearishTotal
            THEN (IF results.alignment_score > 6000 THEN "strong_buy" ELSE "buy")
            ELSE IF BearishTotal > BullishTotal
            THEN (IF results.alignment_score > 6000 THEN "strong_sell" ELSE "sell")
            ELSE "neutral"

\* C16, amended: strong_buy needs the bullish total above 1.5 times the
\* bearish total together with an alignment above 60; any other bullish
\* majority is buy; symmetrically strong_sell / sell; neutral exactly when the
\* totals are equal.
C16_ClearMajority ==
    pc = "returned" =>
        results.recommendation =
            IF BullishTotal > BearishTotal
            THEN (IF 2 * BullishTotal > 3 * BearishTotal
                     /\ results.alignment_score > 6000
                  THEN "strong_buy" ELSE "buy")
            ELSE IF BearishTotal > BullishTotal
            THEN (IF 2 * BearishTotal > 3 * BullishTotal
                     /\ results.alignment_score > 6000
                  THEN "strong_sell" ELSE "sell")
            ELSE "neutral"

\* a bullish majority of less than 1.5 to 1 with an alignment above 60 is a buy
C16_NarrowMajority ==
    /\ pc = "returned"
    /\ BullishTotal > BearishTotal
    /\ 2 * BullishTotal <= 3 * BearishTotal
    /\ results.alignment_score > 6000
    /\ results.recommendation = "buy"

StrongCount ==
    Cardinality({i \in 1..Len(Evaluated) :
                    Evaluated[i].data.momentum \in {"strong_bullish", "strong_bearish"}})

\* 0.6 * alignment + 20 * n / 4 + 20 * strong / n as the fraction
\* ConfidenceNum / ConfidenceDen of hundredths
ConfidenceNum ==
    24 * results.alignment_score * Len(Evaluated)
    + 20000 * Len(Evaluated) * Len(Evaluated) + 80000 * StrongCount
ConfidenceDen == 40 * Len(Evaluated)

ConfidenceRange ==
    /\ results.confidence \in 0..10000
    /\ results.confidence = 0 => Evaluated = <<>>

\* C17 as stated: confidence equals 0.6 * alignment + 20 * (evaluated / 4)
\* + 20 * (fraction of evaluated timeframes with strong momentum), capped at
\* 100; it lies in [0, 100] and is 0 only when no timeframe was evaluated.
C17_ExactSum ==
    (pc = "returned" /\ Evaluated # <<>>) =>
        /\ IF ConfidenceNum >= 10000 * ConfidenceDen
           THEN results.confidence = 10000
           ELSE results.confidence * ConfidenceDen = ConfidenceNum
        /\ ConfidenceRange

\* C17, amended: confidence is that sum rounded to two decimals (the nearest
\* hundredth), capped at 100, with the same bounds.
C17_RoundedSum ==
    (pc = "returned" /\ Evaluated # <<>>) =>
        /\ \/ 2 * Abs(results.confidence * ConfidenceDen - ConfidenceNum)
                 <= ConfidenceDen
           \/ /\ results.confidence = 10000
              /\ ConfidenceNum > 10000 * ConfidenceDen
        /\ ConfidenceRange

\* three timeframes, one in an uptrend with strong momentum: 33.33 * 0.6 + 15
\* + 6.67 = 41.66
C17_OneOfThreeStrong ==
    /\ pc = "returned"
    /\ Len(Evaluated) = 3
    /\ results.alignment_score = 3333
    /\ StrongCount = 1
    /\ results.confidence = 4166

\* the position of a timeframe in 15m, 1h, 4h, 1d
Position(tf) == CHOOSE k \in 1..4 : <<"15m", "1h", "4h", "1d">>[k] = tf

\* the feed has data, at least 50 candles, and its analysis does not raise
Usable(feed) == feed.data = "ok" /\ feed.len >= 50

\* C18: analyze_symbol evaluates 15m, 1h, 4h, 1d in that order; a timeframe
\* with no data, fewer than 50 candles or a raising analysis is left out of
\* results['timeframes'] without failing the call and without affecting the
\* other timeframes; when every timeframe is left out the result has
\* alignment_score 0, recommendation neutral and confidence 0.
C18_LeftOutTimeframes ==
    /\ \A i, j \in 1..Len(Evaluated) :
          i < j => Position(Evaluated[i].tf) < Position(Evaluated[j].tf)
    /\ pc = "returned" =>
          /\ \A k \in 1..4 :
                Usable(feeds[k])
                   <=> \E i \in 1..Len(Evaluated) : Position(Evaluated[i].tf) = k
          /\ \A i, j \in 1..Len(Evaluated) :
                /\ Evaluated[i].data.price = feeds[Position(Evaluated[i].tf)].close
                /\ feeds[Position(Evaluated[i].tf)] = feeds[Position(Evaluated[j].tf)]
                      => Evaluated[i].data = Evaluated[j].data
          /\ DOMAIN results =
                {"timeframes", "alignment_score", "recommendation", "confidence"}
          /\ Evaluated = <<>> =>
                /\ results.alignment_score = 0
                /\ results.recommendation = "neutral"
                /\ results.confidence = 0

\* no data on 15m, 49 candles on 1h, a raising 4h: only 1d is evaluated, and
\* the call returns its scores
C18_OnlyDailyEvaluated ==
    /\ pc = "returned"
    /\ feeds[1].data = "none"
    /\ feeds[2].data = "ok" /\ feeds[2].len = 49
    /\ feeds[3].data = "raises"
    /\ Len(Evaluated) = 1
    /\ Evaluated[1].tf = "1d"
    /\ results.alignment_score = 10000
    /\ results.confidence > 0

-----------------------------------------------------------------------------
(* Properties of add_technical_indicators *)

\* the fields of the indicator set
IndicatorFields ==
    {"sma_20", "sma_50", "sma_200", "ema_9", "ema_21", "ema_55", "rsi",
     "stoch_rsi_k", "stoch_rsi_d", "macd", "macd_signal", "macd_histogram",
     "bb_upper", "bb_middle", "bb_lower", "atr", "volume_sma", "volume_ratio",
     "obv", "vwap", "stoch_k", "stoch_d", "adx", "plus_di", "minus_di"}

\* the fields whose computation fails
FailingFields ==
    CASE fault = "calculate_rsi" -> {"rsi"}
      [] fault = "calculate_stochastic_rsi" -> {"stoch_rsi_k", "stoch_rsi_d"}
      [] fault = "calculate_macd" -> {"macd", "macd_signal", "macd_histogram"}
      [] fault = "calculate_bollinger_bands" -> {"bb_upper", "bb_middle", "bb_lower"}
      [] fault = "calculate_atr" -> {"atr"}
      [] fault = "calculate_obv" -> {"obv"}
      [] fault = "calculate_vwap" -> {"vwap"}
      [] fault = "calculate_stochastic" -> {"stoch_k", "stoch_d"}
      [] fault = "calculate_adx" -> {"adx", "plus_di", "minus_di"}
      [] OTHER -> {fault}

\* C19: on a series of at least 20 candles, if the computation of one
\* indicator field fails, add_technical_indicators still returns the series
\* and every other indicator field, before and after the failing one, is
\* present; below 20 candles the series is returned with no field added.
C19_OtherFieldsPresent ==
    [][pc' = "add_technical_indicators" =>
          IF Len(df.rows) < 20 THEN result' = df
          ELSE /\ result'.rows = df.rows
               /\ IndicatorFields \ FailingFields \subseteq result'.columns]_vars

-----------------------------------------------------------------------------
(* Properties of calculate_obv *)

\* +1, -1 or 0 by the change of the close from candle i - 1 to candle i
CloseSign(i) ==
    IF df.rows[i].close > df.rows[i - 1].close THEN 1
    ELSE IF df.rows[i].close < df.rows[i - 1].close THEN -1
    ELSE 0

\* C20: OBV[0] = volume[0], and for every i >= 1,
\* OBV[i] = OBV[i-1] + s_i * volume[i] with s_i the sign of close[i] - close[i-1].
C20_SeededCumulative ==
    (pc = "calculate_obv" /\ raised = "none") =>
        /\ Len(result) = Len(df.rows)
        /\ result[1] = df.rows[1].volume
        /\ \A i \in 2..Len(df.rows) :
              result[i] = result[i - 1] + CloseSign(i) * df.rows[i].volume

-----------------------------------------------------------------------------
(* Properties of the caller's series *)

\* C21: the candle series passed by the caller is left unchanged by the core:
\* after add_technical_indicators, after each detector and after
\* analyze_symbol it has the same set of fields and the same values as before.
C21_SeriesUnchanged == [][df' = df]_vars

-----------------------------------------------------------------------------
(* Properties of several calls on one generator *)

-----------------------------------------------------------------------------
(* Properties of the order block category *)

\* the candle after row p (1-based) is an impulse up: it closes above its open
\* with (high - low) / low * 100 > 2
ImpulseUp(p) ==
    /\ df.rows[p + 1].close > df.rows[p + 1].open
    /\ 100 * (df.rows[p + 1].high - df.rows[p + 1].low) > 2 * df.rows[p + 1].low

\* it closes below its open with (high - low) / high * 100 > 2
ImpulseDown(p) ==
    /\ df.rows[p + 1].close < df.rows[p + 1].open
    /\ 100 * (df.rows[p + 1].high - df.rows[p + 1].low) > 2 * df.rows[p + 1].high

\* candle i with lookback <= i < length - 1, as rows lookback + 1 .. length - 1
MarkedRows ==
    {p \in 21..(Len(df.rows) - 1) : ImpulseUp(p) \/ ImpulseDown(p)}

\* the block ob was marked at a row of MarkedRows, with the direction and the
\* percentage of the impulse after it
BlockOfImpulse(ob) ==
    /\ ob.timestamp \in MarkedRows
    /\ LET next == df.rows[ob.timestamp + 1]
           base == IF ImpulseUp(ob.timestamp) THEN next.low ELSE next.high
       IN  /\ ob.type = IF ImpulseUp(ob.timestamp) THEN "bullish" ELSE "bearish"
           /\ ob.strength.num * base = 100 * (next.high - next.low) * ob.strength.den

\* strength a is at least strength b
AtLeast(a, b) == a.num * b.den >= b.num * a.den

OrderBlockBlockDone ==
    /\ InList("order_block", enabled)
    /\ pc \in {"liquidity_sweep", "divergence", "pattern", "volume_spike", "annotate"}

\* C23: find_order_blocks marks candle i (lookback <= i < length - 1) exactly
\* when candle i + 1 is an impulse of more than 2 percent, bullish or bearish,
\* with strength equal to that percentage; the order_block signals of
\* analyze_symbol are the (at most) two detected blocks of greatest strength.
C23_OrderBlocks ==
    /\ pc = "find_order_blocks" =>
          /\ Len(result) = Cardinality(MarkedRows)
          /\ {result[k].timestamp : k \in 1..Len(result)} = MarkedRows
          /\ \A k \in 1..Len(result) : BlockOfImpulse(result[k])
    /\ OrderBlockBlockDone =>
          LET ob == OfType(all_signals, "order_block")
              chosen == {ob[i].details.timestamp : i \in 1..Len(ob)}
              strength(q) == [num |-> 100 * (df.rows[q + 1].high - df.rows[q + 1].low),
                              den |-> IF ImpulseUp(q) THEN df.rows[q + 1].low
                                      ELSE df.rows[q + 1].high]
          IN  /\ Len(ob) = IF Cardinality(MarkedRows) < 2
                           THEN Cardinality(MarkedRows) ELSE 2
              /\ Cardinality(chosen) = Len(ob)
              /\ \A i \in 1..Len(ob) :
                    /\ BlockOfImpulse(ob[i].details)
                    /\ ob[i].direction = ob[i].details.type
                    /\ ob[i].priority = "high"
                    /\ \A q \in MarkedRows \ chosen :
                          AtLeast(ob[i].details.strength, strength(q))

\* three blocks were detected and the two strongest were selected, the first
\* detected (2.5 percent) left out
C23_StrongestTwo ==
    /\ OrderBlockBlockDone
    /\ Cardinality(MarkedRows) = 3
    /\ LET ob == OfType(all_signals, "order_block")
       IN  /\ Len(ob) = 2
           /\ ob[1].direction = "bearish"
           /\ ob[1].details.timestamp = Len(df.rows) - 3
           /\ ob[2].direction = "bullish"
           /\ ob[2].details.timestamp = Len(df.rows) - 2

-----------------------------------------------------------------------------
(* Properties of the liquidity sweep category *)

Highs == [i \in 1..Len(df.rows) |-> df.rows[i].high]
Lows == [i \in 1..Len(df.rows) |-> df.rows[i].low]

\* row i lies within 0.2 percent of a neighbouring row: a liquidity zone
ZoneRows(f) ==
    {i \in 1..Len(f) :
        \/ i > 1 /\ 1000 * Abs(f[i] - f[i - 1]) < 2 * f[i]
        \/ i < Len(f) /\ 1000 * Abs(f[i] - f[i + 1]) < 2 * f[i]}

\* the resistance zones with the highest high of the series above them and
\* the latest close below them
SweptResistance ==
    {i \in ZoneRows(Highs) :
        /\ \E k \in 1..Len(Highs) : Highs[k] > Highs[i]
        /\ df.rows[Len(df.rows)].close < Highs[i]}

\* the support zones with the lowest low below them and the latest close above
SweptSupport ==
    {i \in ZoneRows(Lows) :
        /\ \E k \in 1..Len(Lows) : Lows[k] < Lows[i]
        /\ df.rows[Len(df.rows)].close > Lows[i]}

\* the k-th row of a set of rows, in the order of the series
RowInOrder(rows, k) == CHOOSE i \in rows : Cardinality({j \in rows : j < i}) = k - 1

LiquiditySweepBlockDone ==
    /\ InList("liquidity_sweep", enabled)
    /\ pc = "divergence"

\* C24: a bearish sweep is reported for a resistance zone Z exactly when the
\* maximum high of the series is above Z and the latest close below Z, a
\* bullish sweep for a support zone exactly when the minimum low is below Z and
\* the latest close above Z; a zone at the highest high (lowest low) is never
\* swept; analyze_symbol keeps the first 2 sweeps in zone order, all
\* resistance zones before all support zones.
C24_LiquiditySweeps ==
    LiquiditySweepBlockDone =>
        LET sw == OfType(all_signals, "liquidity_sweep")
            nr == Cardinality(SweptResistance)
            ns == Cardinality(SweptSupport)
        IN  /\ Len(sw) = IF nr + ns < 2 THEN nr + ns ELSE 2
            /\ \A k \in 1..Len(sw) :
                  /\ sw[k].priority = "high"
                  /\ IF k <= nr
                     THEN /\ sw[k].direction = "bearish"
                          /\ sw[k].details.liquidity_level
                                = Highs[RowInOrder(SweptResistance, k)]
                          /\ \E i \in 1..Len(Highs) :
                                Highs[i] > sw[k].details.liquidity_level
                     ELSE /\ sw[k].direction = "bullish"
                          /\ sw[k].details.liquidity_level
                                = Lows[RowInOrder(SweptSupport, k - nr)]
                          /\ \E i \in 1..Len(Lows) :
                                Lows[i] < sw[k].details.liquidity_level

\* several swept resistance zones and a swept support zone: both kept sweeps
\* are bearish and the bullish one is cut; the zone at the highest high of the
\* series is not among the swept ones
C24_ResistanceFirst ==
    /\ LiquiditySweepBlockDone
    /\ Cardinality(SweptResistance) >= 2
    /\ Cardinality(SweptSupport) >= 1
    /\ \E i \in ZoneRows(Highs) \ SweptResistance :
          \A k \in 1..Len(Highs) : Highs[k] <= Highs[i]
    /\ LET sw == OfType(all_signals, "liquidity_sweep")
       IN  /\ Len(sw) = 2
           /\ sw[1].direction = "bearish"
           /\ sw[2].direction = "bearish"

-----------------------------------------------------------------------------
(* Pattern signals *)

Detections ==
    find_triangles(df.rows, 50) \o find_head_and_shoulders(df.rows, 100)
    \o find_flags_and_pennants(df.rows) \o find_double_top_bottom(df.rows, 50)
    \o detect_candlestick_patterns(df.rows)

Qualifying(det) == {i \in 1..Len(det) : det[i].reliability \in {"high", "medium"}}

PatternBlockDone == InList("pattern", enabled) /\ pc = "volume_spike"

\* C25: every pattern signal comes from a detection of reliability high or
\* medium, its priority is medium for high and low for medium, so no returned
\* pattern signal has priority high or critical; the pattern signals are the
\* first 3 qualifying detections, in detection order
C25_PatternSignals ==
    /\ \A i \in 1..Len(all_signals) : all_signals[i].type = "pattern" =>
          /\ all_signals[i].details.reliability \in {"high", "medium"}
          /\ all_signals[i].priority =
                IF all_signals[i].details.reliability = "high" THEN "medium" ELSE "low"
    /\ pc = "done" =>
          \A i \in 1..Len(result) : result[i].type = "pattern" =>
              result[i].priority \in {"medium", "low"}
    /\ PatternBlockDone =>
          LET pat == OfType(all_signals, "pattern")
              det == Detections
              qual == Qualifying(det)
          IN  /\ Len(pat) = IF Cardinality(qual) < 3 THEN Cardinality(qual) ELSE 3
              /\ \A k \in 1..Len(pat) :
                    /\ pat[k].details = det[RowInOrder(qual, k)]
                    /\ pat[k].direction = pat[k].details.direction

\* a low-reliability detection is passed over and a later detection is
\* selected as the third pattern signal
C25_LowReliabilitySkipped ==
    /\ PatternBlockDone
    /\ LET pat == OfType(all_signals, "pattern")
           det == Detections
       IN  /\ Len(pat) = 3
           /\ \E i \in 1..Len(det) : \E j \in 1..Len(det) :
                 /\ i < j
                 /\ det[i].reliability = "low"
                 /\ pat[3].details = det[j]

-----------------------------------------------------------------------------
(* Divergences *)

\* the rows among the last 50 that are the lowest (highest) of the five
\* candles around them
LocalLows ==
    LET n == Len(df.rows)
    IN  {i \in (n - 47)..(n - 2) :
            \A k \in (i - 2)..(i + 2) : df.rows[k].low >= df.rows[i].low}
LocalHighs ==
    LET n == Len(df.rows)
    IN  {i \in (n - 47)..(n - 2) :
            \A k \in (i - 2)..(i + 2) : df.rows[k].high <= df.rows[i].high}

Later(S) == CHOOSE i \in S : \A k \in S : k <= i
Earlier(S) == Later(S \ {Later(S)})

BullishDue(col) ==
    /\ col \in df.columns
    /\ Len(df.rows) >= 50
    /\ Cardinality(LocalLows) >= 2
    /\ LET p == Earlier(LocalLows)
           q == Later(LocalLows)
       IN  /\ df.rows[q].low < df.rows[p].low
           /\ df.rows[p][col] # NaN
           /\ df.rows[q][col] # NaN
           /\ df.rows[q][col] > df.rows[p][col]
BearishDue(col) ==
    /\ col \in df.columns
    /\ Len(df.rows) >= 50
    /\ Cardinality(LocalHighs) >= 2
    /\ LET p == Earlier(LocalHighs)
           q == Later(LocalHighs)
       IN  /\ df.rows[q].high > df.rows[p].high
           /\ df.rows[p][col] # NaN
           /\ df.rows[q][col] # NaN
           /\ df.rows[q][col] < df.rows[p][col]

\* the divergences due, RSI before MACD and bullish before bearish
DivergenceKinds ==
    <<[col |-> "rsi", type |-> "bullish"], [col |-> "rsi", type |-> "bearish"],
      [col |-> "macd", type |-> "bullish"], [col |-> "macd", type |-> "bearish"]>>
DueKinds(cols) ==
    {k \in 1..4 : /\ DivergenceKinds[k].col \in cols
                  /\ IF DivergenceKinds[k].type = "bullish"
                     THEN BullishDue(DivergenceKinds[k].col)
                     ELSE BearishDue(DivergenceKinds[k].col)}

DivergenceBlockDone == InList("divergence", enabled) /\ pc = "pattern"

\* C26: find_rsi_divergence and find_macd_divergence report a bullish
\* divergence exactly when the last 50 candles hold two local lows, the later
\* of the two latest is strictly lower and the oscillator there is strictly
\* higher, both oscillator values being defined (bearish: later high strictly
\* higher, oscillator strictly lower); analyze_symbol keeps the first 2 of the
\* RSI results followed by the MACD results
C26_Divergences ==
    /\ pc = "find_rsi_divergence" =>
          /\ Len(result) = Cardinality(DueKinds({"rsi"}))
          /\ \A k \in 1..Len(result) :
                result[k].type = DivergenceKinds[RowInOrder(DueKinds({"rsi"}), k)].type
    /\ pc = "find_macd_divergence" =>
          /\ Len(result) = Cardinality(DueKinds({"macd"}))
          /\ \A k \in 1..Len(result) :
                result[k].type = DivergenceKinds[RowInOrder(DueKinds({"macd"}), k)].type
    /\ DivergenceBlockDone =>
          LET sig == OfType(all_signals, "divergence")
              due == DueKinds({"rsi", "macd"})
          IN  /\ Len(sig) = IF Cardinality(due) < 2 THEN Cardinality(due) ELSE 2
              /\ \A k \in 1..Len(sig) :
                    LET kind == DivergenceKinds[RowInOrder(due, k)]
                    IN  /\ sig[k].direction = kind.type
                        /\ sig[k].details.type = kind.type
                        /\ ("indicator" \in DOMAIN sig[k].details) = (kind.col = "macd")

\* four divergences are due and the two RSI ones become the signals
C26_RsiBeforeMacd ==
    /\ DivergenceBlockDone
    /\ Cardinality(DueKinds({"rsi", "macd"})) = 4
    /\ LET sig == OfType(all_signals, "divergence")
       IN  /\ Len(sig) = 2
           /\ \A k \in 1..2 : "rsi_point1" \in DOMAIN sig[k].details

\* the earlier of the two latest lows lies in the warm-up of the RSI: the
\* MACD divergence is due and no RSI divergence is reported
C26_UndefinedOscillator ==
    /\ pc = "find_rsi_divergence"
    /\ Len(df.rows) >= 50
    /\ Cardinality(LocalLows) >= 2
    /\ df.rows[Earlier(LocalLows)].rsi = NaN
    /\ BullishDue("macd")
    /\ result = <<>>

-----------------------------------------------------------------------------
(* Stopping a scan *)

\* C27: once the stop_scan callback of the user has been handled while the
\* user's scan task is in progress, the task analyzes no further symbol, saves
\* no further signal and sends no scan results
C27_ScanStops ==
    [][scan.stopped => /\ scan'.analyzed = scan.analyzed
                       /\ scan'.saved = scan.saved
                       /\ scan'.scan_results = scan.scan_results]_vars

-----------------------------------------------------------------------------
(* Rate limiting *)

\* the grants with a timestamp in the window of the given length that
\* starts at grant i (a window that holds grants holds no more of them than
\* the window that starts at its first one)
GrantsIn(i, window) ==
    {k \in 1..Len(limiter.granted) :
        /\ limiter.granted[i] <= limiter.granted[k]
        /\ limiter.granted[k] - limiter.granted[i] < window}

WithinLimits ==
    \A i \in 1..Len(limiter.granted) :
        /\ Cardinality(GrantsIn(i, 1 * Second)) <= limiter.calls_per_second
        /\ Cardinality(GrantsIn(i, 60 * Second)) <= limiter.calls_per_minute

\* a caller that waits holds the lock and sleeps until the oldest entry of a
\* full window leaves it
WaitsWithLock ==
    \A c \in 1..NumCallers :
        /\ limiter.pc[c] # "spinning"
        /\ limiter.pc[c] = "sleeping" =>
              /\ limiter.lock = c
              /\ \/ /\ Len(limiter.second_history) >= limiter.calls_per_second
                    /\ limiter.wake_at[c] = limiter.second_history[1] + 1 * Second
                 \/ /\ Len(limiter.minute_history) >= limiter.calls_per_minute
                    /\ limiter.wake_at[c] = limiter.minute_history[1] + 60 * Second

\* C28: for every interleaving of concurrent acquire calls on a key, every
\* sliding 1-second window holds at most calls_per_second grant timestamps and
\* every sliding 60-second window at most calls_per_minute; a caller that
\* would exceed a limit waits, holding the lock, until the oldest entry leaves
\* the window; and every acquire eventually returns as time advances
C28_RateLimits ==
    /\ [](WithinLimits /\ WaitsWithLock)
    /\ \A c \in 1..NumCallers : (limiter.pc[c] # "idle") ~> (limiter.pc[c] = "done")

\* all callers were granted, the last of them after the first grant had left
\* the 60-second window
C28_WaitedForTheMinute ==
    /\ Len(limiter.granted) = NumCallers
    /\ \A c \in 1..NumCallers : limiter.pc[c] = "done"
    /\ limiter.granted[NumCallers] = limiter.granted[1] + 60 * Second

-----------------------------------------------------------------------------
(* What a failure leaves of the batch *)

RECURSIVE SelectedBefore(_)
\* what the enabled ones of the first k categories select, in their order
SelectedBefore(k) ==
    IF k = 0 THEN <<>>
    ELSE SelectedBefore(k - 1)
         \o (IF InList(CategoryOrder[k], enabled)
             THEN Selected(CategoryOrder[k], df, levels) ELSE <<>>)

\* the number of categories evaluated before the one that raised
RaisedAfter == (CHOOSE k \in 1..Len(CategoryOrder) : CategoryOrder[k] = raised) - 1

\* C29: analyze_symbol on a series of at least 20 candles does not raise: when
\* the evaluation raises at category k, the call returns the signals appended
\* by the categories before k, in order and cut to the global cap, without
\* annotations and without confluence signals
C29_FailureCutsTheRest ==
    /\ raised # "none" => pc \in {"return", "done"}
    /\ (pc = "done" /\ raised # "none") =>
          /\ Len(df.rows) >= 20
          /\ all_signals = SelectedBefore(RaisedAfter)
          /\ result = SubSeq(all_signals, 1,
                             IF Len(all_signals) < cap THEN Len(all_signals) ELSE cap)
          /\ \A i \in 1..Len(result) :
                /\ result[i].type # "confluence"
                /\ DOMAIN result[i] \cap {"trend", "strength_index", "rsi", "macd"} = {}

\* a detector in the middle of the order raised: the batch holds the signals
\* of earlier categories, and a later enabled category with signals to give
\* gave none
C29_LaterCategoryLost ==
    /\ pc = "done"
    /\ raised \notin {"none", "volume_spike"}
    /\ Len(result) >= 2
    /\ \E k \in (RaisedAfter + 2)..Len(CategoryOrder) :
          /\ InList(CategoryOrder[k], enabled)
          /\ ~Raises(CategoryOrder[k], fault)
          /\ Selected(CategoryOrder[k], df, levels) # <<>>
          /\ OfType(result, CategoryOrder[k]) = <<>>

-----------------------------------------------------------------------------
(* Breaks of structure *)

\* the rows whose high (low) is the highest (lowest) of the 11 candles
\* around them
SwingHighRows ==
    {i \in 6..(Len(df.rows) - 5) :
        \A k \in (i - 5)..(i + 5) : df.rows[k].high <= df.rows[i].high}
SwingLowRows ==
    {i \in 6..(Len(df.rows) - 5) :
        \A k \in (i - 5)..(i + 5) : df.rows[k].low >= df.rows[i].low}

\* the swing row before row i
PreviousOf(S, i) == CHOOSE p \in S : p < i /\ \A q \in S : q < i => q <= p

\* the swing highs above the swing high before them, and the swing lows
\* below the swing low before them
BullishBreaks ==
    {i \in SwingHighRows :
        /\ \E p \in SwingHighRows : p < i
        /\ df.rows[i].high > df.rows[PreviousOf(SwingHighRows, i)].high}
BearishBreaks ==
    {i \in SwingLowRows :
        /\ \E p \in SwingLowRows : p < i
        /\ df.rows[i].low < df.rows[PreviousOf(SwingLowRows, i)].low}

StructureBreakBlockDone == InList("structure_break", enabled) /\ pc = "level_approach"

\* C30: the structure_break signals are the last 2 entries of the list of all
\* bullish breaks, in time order, followed by all bearish breaks, in time
\* order; a bullish structure_break signal is in a batch only if fewer than 2
\* bearish breaks were detected
C30_BullishBeforeBearish ==
    /\ StructureBreakBlockDone =>
          LET sb == OfType(all_signals, "structure_break")
              bull == Cardinality(BullishBreaks)
              bear == Cardinality(BearishBreaks)
          IN  /\ Len(sb) = IF bull + bear < 2 THEN bull + bear ELSE 2
              /\ \A k \in 1..Len(sb) :
                    LET e == bull + bear - Len(sb) + k
                    IN  IF e <= bull
                        THEN LET i == RowInOrder(BullishBreaks, e)
                             IN  /\ sb[k].direction = "bullish"
                                 /\ sb[k].details.type = "bullish_bos"
                                 /\ sb[k].details.new_high = df.rows[i].high
                                 /\ sb[k].details.previous_high =
                                       df.rows[PreviousOf(SwingHighRows, i)].high
                        ELSE LET i == RowInOrder(BearishBreaks, e - bull)
                             IN  /\ sb[k].direction = "bearish"
                                 /\ sb[k].details.type = "bearish_bos"
                                 /\ sb[k].details.new_low = df.rows[i].low
                                 /\ sb[k].details.previous_low =
                                       df.rows[PreviousOf(SwingLowRows, i)].low
    /\ pc = "done" =>
          ((\E i \in 1..Len(result) : /\ result[i].type = "structure_break"
                                      /\ result[i].direction = "bullish")
           => Cardinality(BearishBreaks) < 2)

\* the latest break is a bullish one, and both structure_break signals are
\* bearish
C30_LatestBullishBreakLost ==
    /\ StructureBreakBlockDone
    /\ Cardinality(BearishBreaks) >= 2
    /\ \E i \in BullishBreaks : \A j \in BearishBreaks : j < i
    /\ LET sb == OfType(all_signals, "structure_break")
       IN  /\ Len(sb) = 2
           /\ \A k \in 1..2 : sb[k].direction = "bearish"

====
